---- MODULE Spec2Model ----
(***************************************************************************)
(* A model of the SDC4 instance pipeline of SDCStudio_Examples:            *)
(* the Exceptional-Value corrector, the skeleton-based XML builder, the    *)
(* JSON and RDF projections, and the wizard / bulk-import orchestration.   *)
(*                                                                         *)
(* Texts are sequences of one-character strings; an XML document is a tree *)
(* of element records.  Every subsystem has its own specification; the     *)
(* variables of the other subsystems stay at their idle values.            *)
(***************************************************************************)
EXTENDS Integers, Sequences, FiniteSets, TLC

VARIABLES
    error_msg,      \* _choose_ev_for_error: the validator message (a sequence of words)
    ev_value,       \* _choose_ev_for_error: the returned EV name ("" before the call)
    ev_pc,          \* "input" before the call, "chosen" after it
    c_xml,          \* auto_correct_with_evs: the xml_content argument (a parsed tree)
    c_errors,       \* auto_correct_with_evs: the errors dict, in insertion order
    c_out,          \* auto_correct_with_evs: the returned corrected_xml
    c_fields,       \* auto_correct_with_evs: the returned corrected_fields
    c_rdf,          \* RDFExtractor.extract: the reifier blocks of the corrected document
    c_pc,           \* "input", "corrected", "twice", "rdf", or "raised"
    fm_ct_id_key,   \* whether the FIELD_METADATA entries repeat their key as 'ct_id'
    b_layout,       \* the skeleton file: "indented", "compact", "partial", or "missing"
    b_cluster_ct_id, \* the cluster_ct_id the builder was constructed with ("" is None)
    b_entry,        \* "form" (build_from_form) or "wizard" (build_from_wizard)
    b_form,         \* the field values: form_data / the cleaned step-2 form
    b_meta,         \* the per-field overrides: metadata / the posted {ct_id}_ev ... keys
    b_context,      \* the wizard's step-1 data
    b_doc,          \* the document returned by the builder
    b_doc2,         \* the pruning pass applied to b_doc
    j_flat,         \* JSONExtractor.extract(b_doc)['fields']
    j_nested,       \* JSONInstanceGenerator.generate(b_doc)['fields']
    j_search,       \* JSONExtractor.extract(b_doc)['search_text'], as its parts
    b_pc,           \* "input", "built", "repruned", "extracted"
    r_type,         \* RDFExtractor: the field's type in FIELD_METADATA
    r_value,        \* RDFExtractor: the text of the component's value element
    r_literal,      \* RDFExtractor: the literal written into the quoted triple
    r_pc,           \* "input" before the component is extracted, "emitted" after it
    w_visible,      \* WizardStepConfig.get_visible_steps()
    w_completed,    \* the session: the steps whose data is marked completed
    w_instance_id,  \* the session: WizardStateData.instance_id (NoId is None)
    w_builds,       \* the number of WizardState.build_xml calls so far
    w_get,          \* the response to the last GET of a wizard step
    n_cuid,         \* the number of cuids generated so far
    n_requests,     \* the number of requests and files handled so far
    db,             \* the instance table: the rows saved, in order
    p_mode,         \* the running pipeline: "wizard", "bulk" or "none"
    p_pc,           \* its position: "idle", "built", "validated", "checked", "saved", "uploaded"
    p_instance_id,  \* its local variable instance_id
    p_built,        \* the document as built or as read from the file
    p_doc,          \* its local variable xml_content
    p_is_valid,     \* the validator's verdict
    p_status,       \* its local variable validation_status
    p_validations,  \* the number of validator calls of this run
    p_corrections,  \* the number of corrector calls of this run
    p_saved,        \* the row as it was saved by this run (NoRow before)
    p_upload,       \* the outcome of this run's upload ("none" before)
    p_result,       \* "success", "error", or "none" while the run is not over
    _registry_cache, \* dm_registry._registry_cache: None or the registry
    k_form,         \* per builder invocation: its form_data argument
    k_meta,         \* per builder invocation: its metadata argument
    k_xml,          \* per builder invocation: its local variable xml_content
    k_out,          \* per builder invocation: the document it returned
    k_pc,           \* per builder invocation: "start", "metadata", "fields", "done"
    k_overlap,      \* whether a step was taken while the other invocation was under way
    a_keys,         \* the APIKey table: the rows, in creation order
    a_storage,      \* default_storage: the paths written so far
    a_requests,     \* the number of API requests handled so far
    a_req,          \* the last API request: its X-API-Key header and its files
    a_resp,         \* the response to it
    t_status,       \* the instance row's rdf_sync_status ("absent" without a row)
    t_queue,        \* the Celery queue of extract_and_upload_rdf messages
    t_last,         \* the last step: who took it, the statuses it saved, its result
    t_saves,        \* the number of saves and deletes the application made
    t_cleanups,     \* the number of cleanup_failed_rdf_syncs runs
    g_rdf,          \* RDFExtractor.extract on the built document: its reifier blocks
    g_pc,           \* "idle" before that call, "emitted" after it
    i_zip,          \* AppInstaller: what _validate_zip finds in the ZIP file
    i_src,          \* the dm-* files of the ZIP's dmlib directory, in glob order
    i_listed,       \* whether the app name is in settings.INSTALLED_APPS
    i_project0,     \* the project files before install()
    i_project,      \* the project files now
    i_temp_dir,     \* self.temp_dir: "None", "exists" or "removed"
    i_rollback_actions, \* self.rollback_actions
    i_registered,   \* every action appended to rollback_actions so far
    i_ran,          \* the rollback actions called, in the order of the calls
    i_result,       \* the InstallationResult, once returned
    i_pc,           \* the step install() is at
    generic_db      \* the GenericInstance table of the validation API

chooseVars == <<error_msg, ev_value, ev_pc>>
correctVars == <<c_xml, c_errors, c_out, c_fields, c_rdf, c_pc>>

buildVars == <<fm_ct_id_key, b_layout, b_cluster_ct_id, b_entry, b_form, b_meta, b_context,
               b_doc, b_doc2, j_flat, j_nested, j_search, b_pc>>

rdfVars == <<r_type, r_value, r_literal, r_pc>>

sessionVars == <<w_visible, w_completed, w_instance_id, w_builds, w_get, n_cuid, n_requests>>
runVars == <<p_mode, p_instance_id, p_built, p_doc, p_is_valid, p_status,
             p_validations, p_corrections, p_saved, p_upload>>
pipeVars == <<sessionVars, db, p_pc, p_result, runVars>>

concVars == <<_registry_cache, k_form, k_meta, k_xml, k_out, k_pc, k_overlap>>

apiVars == <<a_keys, a_storage, a_requests, a_req, a_resp>>

taskVars == <<t_status, t_queue, t_last, t_saves, t_cleanups>>

turtleVars == <<g_rdf, g_pc>>

installVars == <<i_zip, i_src, i_listed, i_project0, i_project, i_temp_dir,
                 i_rollback_actions, i_registered, i_ran, i_result, i_pc>>

genericVars == <<generic_db>>

vars == <<chooseVars, correctVars, buildVars, rdfVars, pipeVars, concVars, apiVars, taskVars, turtleVars, installVars, genericVars>>

\* the variables of the other subsystems
notChoose == <<correctVars, buildVars, rdfVars, pipeVars, concVars, apiVars, taskVars, turtleVars, installVars, genericVars>>
notCorrect == <<chooseVars, buildVars, rdfVars, pipeVars, concVars, apiVars, taskVars, turtleVars, installVars, genericVars>>
notBuild == <<chooseVars, correctVars, rdfVars, pipeVars, concVars, apiVars, taskVars, turtleVars, installVars, genericVars>>
notRdf == <<chooseVars, correctVars, buildVars, pipeVars, concVars, apiVars, taskVars, turtleVars, installVars, genericVars>>
notPipe == <<chooseVars, correctVars, buildVars, rdfVars, concVars, apiVars, taskVars, turtleVars, installVars, genericVars>>
notConc == <<chooseVars, correctVars, buildVars, rdfVars, pipeVars, apiVars, taskVars, turtleVars, installVars, genericVars>>
notApi == <<chooseVars, correctVars, buildVars, rdfVars, pipeVars, concVars, taskVars, turtleVars, installVars, genericVars>>
notTask == <<chooseVars, correctVars, buildVars, rdfVars, pipeVars, concVars, apiVars, turtleVars, installVars, genericVars>>
notTurtle == <<chooseVars, correctVars, buildVars, rdfVars, pipeVars, concVars, apiVars, taskVars, installVars, genericVars>>
notInstall == <<chooseVars, correctVars, buildVars, rdfVars, pipeVars, concVars, apiVars, taskVars, turtleVars, genericVars>>
notGeneric == <<chooseVars, correctVars, buildVars, rdfVars, pipeVars, concVars, apiVars, taskVars, turtleVars, installVars>>

(***************************************************************************)
(* Generic sequence helpers.                                               *)
(***************************************************************************)
Range(s) == {s[i] : i \in 1..Len(s)}

SeqsUpTo(S, n) == UNION {[1..k -> S] : k \in 0..n}

(***************************************************************************)
(* XML trees.  An element is a record: ns is "" or "sdc4", name the local  *)
(* tag without its id suffix ("ms-", "dm-", "label", "xdcount-value", ...),*)
(* id the ct_id suffix of an ms-/dm- tag, attr the value of its ct-id (or, *)
(* on an ev-placeholder, ct_id) attribute, text its text and kids its      *)
(* children, tail the text that follows its end tag.  A path is the        *)
(* sequence of child indexes from the root.                                *)
(***************************************************************************)
El(ns, name, id, attr, text, kids) ==
    [ns |-> ns, name |-> name, id |-> id, attr |-> attr, text |-> text, kids |-> kids,
     tail |-> <<>>]

Leaf(name, text) == El("", name, "", "", text, <<>>)

NoPath == <<0>>

RECURSIVE At(_, _)
At(e, p) == IF p = <<>> THEN e ELSE At(e.kids[Head(p)], Tail(p))

RECURSIVE Put(_, _, _)
Put(e, p, new) ==
    IF p = <<>> THEN new
    ELSE [e EXCEPT !.kids[Head(p)] = Put(e.kids[Head(p)], Tail(p), new)]

RemoveKid(e, i) == [e EXCEPT !.kids = SubSeq(@, 1, i - 1) \o SubSeq(@, i + 1, Len(@))]

AppendKid(e, k) == [e EXCEPT !.kids = Append(@, k)]

\* Element.iter(): the paths of e and of its descendants in document order
RECURSIVE Iter(_)
RECURSIVE IterKids(_, _)
Iter(e) == <<<<>>>> \o IterKids(e, 1)
IterKids(e, i) ==
    IF i > Len(e.kids) THEN <<>>
    ELSE LET sub == Iter(e.kids[i]) IN
         [j \in 1..Len(sub) |-> <<i>> \o sub[j]] \o IterKids(e, i + 1)

\* the first path of a sequence of paths that satisfies a test, else NoPath
FirstPath(paths, Test(_)) ==
    IF \E i \in 1..Len(paths) : Test(paths[i])
    THEN paths[CHOOSE i \in 1..Len(paths) :
                  Test(paths[i]) /\ \A j \in 1..(i - 1) : ~Test(paths[j])]
    ELSE NoPath

\* elem.find('.//name') of ElementTree: the first proper descendant of the
\* element at base whose tag is the un-namespaced name
Find(tree, base, name) ==
    LET sub == Iter(At(tree, base))
        Hit(p) == p # <<>> /\ At(tree, base \o p).ns = "" /\ At(tree, base \o p).name = name
        q == FirstPath(sub, Hit)
    IN IF q = NoPath THEN NoPath ELSE base \o q

KidsNamed(e, name) == {i \in 1..Len(e.kids) : e.kids[i].name = name}

\* the result of a find() that found nothing
NoElem == El("", "#none", "", "", <<>>, <<>>)

\* elem.find('.//name') as an element: the first proper descendant, in
\* document order, whose tag is the un-namespaced name
RECURSIVE FindIn(_, _)
RECURSIVE FindKids(_, _, _)
FindIn(e, name) == FindKids(e, 1, name)
FindKids(e, i, name) ==
    IF i > Len(e.kids) THEN NoElem
    ELSE LET kid == e.kids[i] IN
         IF kid.ns = "" /\ kid.name = name THEN kid
         ELSE LET r == FindIn(kid, name) IN
              IF r # NoElem THEN r ELSE FindKids(e, i + 1, name)

(***************************************************************************)
(* Texts.  A text is a sequence of chunks, normally single characters.     *)
(* The chunk "" stands for an empty text node: it contributes no           *)
(* character, but an element holding it is written <a></a>, not <a/>.      *)
(***************************************************************************)
\* str.replace(pat, repl): every non-overlapping occurrence, left to right
RECURSIVE ReplaceAll(_, _, _)
ReplaceAll(text, pat, repl) ==
    IF Len(text) < Len(pat) \/ pat[1] \notin Range(text) THEN text
    ELSE IF SubSeq(text, 1, Len(pat)) = pat
         THEN repl \o ReplaceAll(SubSeq(text, Len(pat) + 1, Len(text)), pat, repl)
         ELSE <<Head(text)>> \o ReplaceAll(Tail(text), pat, repl)

StartsWith(text, pat) == Len(text) >= Len(pat) /\ SubSeq(text, 1, Len(pat)) = pat

Blank == {"\n", " ", ""}

\* str.strip()
RECURSIVE LStrip(_)
LStrip(text) == IF text # <<>> /\ Head(text) \in Blank THEN LStrip(Tail(text)) ELSE text
RECURSIVE RStrip(_)
RStrip(text) ==
    IF text # <<>> /\ text[Len(text)] \in Blank THEN RStrip(SubSeq(text, 1, Len(text) - 1))
    ELSE text
Strip(text) == RStrip(LStrip(text))

\* str.lower() on the characters of the alphabet
LowerChar(c) == CASE c = "T" -> "t" [] c = "F" -> "f" [] OTHER -> c
Lower(text) == [i \in 1..Len(text) |-> LowerChar(text[i])]

\* XMLBuilder._escape_xml: five replacements, the ampersand first
_escape_xml(value) ==
    LET a == ReplaceAll(value, <<"&">>, <<"&", "a", "m", "p", ";">>)
        b == ReplaceAll(a, <<"<">>, <<"&", "l", "t", ";">>)
        c == ReplaceAll(b, <<">">>, <<"&", "g", "t", ";">>)
        d == ReplaceAll(c, <<"\"">>, <<"&", "q", "u", "o", "t", ";">>)
    IN ReplaceAll(d, <<"'">>, <<"&", "a", "p", "o", "s", ";">>)

\* the serializer's escaping of character data: & < > only
SerializeText(text) ==
    LET a == ReplaceAll(text, <<"&">>, <<"&", "a", "m", "p", ";">>)
        b == ReplaceAll(a, <<"<">>, <<"&", "l", "t", ";">>)
    IN ReplaceAll(b, <<">">>, <<"&", "g", "t", ";">>)

Entities ==
    << <<<<"&", "a", "m", "p", ";">>, "&">>, <<<<"&", "l", "t", ";">>, "<">>,
       <<<<"&", "g", "t", ";">>, ">">>, <<<<"&", "q", "u", "o", "t", ";">>, "\"">>,
       <<<<"&", "a", "p", "o", "s", ";">>, "'">> >>

\* the parser's decoding of character data: one pass over the entity
\* references; an empty text node does not survive parsing
RECURSIVE ParseText(_)
ParseText(text) ==
    IF text = <<>> THEN <<>>
    ELSE IF Head(text) = "" THEN ParseText(Tail(text))
    ELSE IF Head(text) = "&" /\ \E k \in 1..Len(Entities) : StartsWith(text, Entities[k][1])
         THEN LET k == CHOOSE k \in 1..Len(Entities) : StartsWith(text, Entities[k][1])
              IN <<Entities[k][2]>> \o ParseText(SubSeq(text, Len(Entities[k][1]) + 1, Len(text)))
         ELSE <<Head(text)>> \o ParseText(Tail(text))

(***************************************************************************)
(* Python values: str, int, bool, float, Decimal and None.  Numbers are    *)
(* kept in hundredths so that 1.50, 1.5 and Decimal("1.50") compare equal. *)
(***************************************************************************)
PyNone == [t |-> "none"]
PyStr(s) == [t |-> "str", s |-> s]
PyInt(n) == [t |-> "int", h |-> 100 * n]
PyBool(b) == [t |-> "bool", h |-> IF b THEN 100 ELSE 0]
PyFloat(h) == [t |-> "float", h |-> h]
PyDec(s, h) == [t |-> "dec", s |-> s, h |-> h]

IsNumber(v) == v.t \in {"int", "bool", "float", "dec"}

\* Python ==
PyEq(a, b) ==
    IF IsNumber(a) /\ IsNumber(b) THEN a.h = b.h
    ELSE IF a.t = "str" /\ b.t = "str" THEN a.s = b.s
    ELSE a.t = "none" /\ b.t = "none"

\* truthiness
Truthy(v) ==
    CASE v.t = "none" -> FALSE
      [] v.t = "str" -> v.s # <<>>
      [] OTHER -> v.h # 0

Digits == <<"0", "1", "2", "3", "4", "5", "6", "7", "8", "9">>
DigitVal(c) == (CHOOSE k \in 1..10 : Digits[k] = c) - 1
IsDigit(c) == c \in Range(Digits)

\* str(n) for a natural number
RECURSIVE IntStr(_)
IntStr(n) == IF n < 10 THEN <<Digits[n + 1]>> ELSE IntStr(n \div 10) \o <<Digits[(n % 10) + 1]>>

\* str(value)
Str(v) ==
    CASE v.t = "str" -> v.s
      [] v.t = "dec" -> v.s
      [] v.t = "int" -> IntStr(v.h \div 100)
      [] v.t = "bool" -> IF v.h # 0 THEN <<"T", "r", "u", "e">> ELSE <<"F", "a", "l", "s", "e">>
      [] v.t = "none" -> <<"N", "o", "n", "e">>
      [] OTHER -> IntStr(v.h \div 100) \o <<".">> \o IntStr((v.h % 100) \div 10)

\* int(text) succeeds on a non-empty run of digits
IsIntText(text) == text # <<>> /\ \A i \in 1..Len(text) : IsDigit(text[i])
RECURSIVE IntVal(_)
IntVal(text) ==
    IF text = <<>> THEN 0 ELSE 10 * IntVal(SubSeq(text, 1, Len(text) - 1)) + DigitVal(text[Len(text)])

\* float(text) succeeds on digits with at most one point (at most two decimals here)
DotAt(text) == IF "." \in Range(text) THEN CHOOSE i \in 1..Len(text) : text[i] = "." ELSE 0
IsFloatText(text) ==
    LET d == DotAt(text) IN
    IF d = 0 THEN IsIntText(text)
    ELSE LET ip == SubSeq(text, 1, d - 1)
             fp == SubSeq(text, d + 1, Len(text))
         IN /\ ip \o fp # <<>>
            /\ \A i \in 1..Len(ip \o fp) : IsDigit((ip \o fp)[i])
            /\ Len(fp) <= 2
FloatVal(text) ==
    LET d == DotAt(text) IN
    IF d = 0 THEN 100 * IntVal(text)
    ELSE LET ip == SubSeq(text, 1, d - 1)
             fp == SubSeq(text, d + 1, Len(text))
         IN 100 * IntVal(ip) + (IF Len(fp) = 0 THEN 0
                                ELSE IF Len(fp) = 1 THEN 10 * IntVal(fp) ELSE IntVal(fp))

(***************************************************************************)
(* SDCValidator._choose_ev_for_error (sdc_validator.py 139-164).           *)
(* A message is a sequence of words separated by single blanks.  The       *)
(* Python test `word in error_lower` is a substring test: a keyword occurs *)
(* in the message when it is a substring of one of its lower-cased words,  *)
(* and the two-word phrase "not applicable" when its words are adjacent.   *)
(***************************************************************************)
MaxMsgWords == 3

MsgWords ==
    {"required", "missing", "mandatory", "type", "format", "pattern",
     "range", "constraint", "bounds", "limit", "refused", "declined",
     "not", "applicable", "n/a", "value",
     "REQUIRED", "N/A", "prototype", "unlimited"}

\* str.lower() on one word of the vocabulary
LowerWord(w) ==
    CASE w = "REQUIRED" -> "required"
      [] w = "N/A" -> "n/a"
      [] OTHER -> w

LowerMsg(msg) == [i \in 1..Len(msg) |-> LowerWord(msg[i])]

\* kw is a substring of the single word w
WordHas(w, kw) ==
    \/ w = kw
    \/ w = "prototype" /\ kw = "type"
    \/ w = "unlimited" /\ kw = "limit"

\* `phrase in lowered`, phrase a sequence of one or two words
Occurs(phrase, lowered) ==
    \E i \in 1..Len(lowered) :
        /\ i + Len(phrase) - 1 <= Len(lowered)
        /\ \A j \in 1..Len(phrase) :
              IF Len(phrase) = 1
              THEN WordHas(lowered[i + j - 1], phrase[j])
              ELSE lowered[i + j - 1] = phrase[j]

AnyWord(phrases, lowered) == \E p \in phrases : Occurs(p, lowered)

\* the mutant: the type/format/pattern test moved in front of required/missing/mandatory
ChooseEvTypeFirst(msg) ==
    LET error_lower == LowerMsg(msg) IN
    IF AnyWord({<<"type">>, <<"format">>, <<"pattern">>}, error_lower)
        THEN "NoInformation"
    ELSE IF AnyWord({<<"required">>, <<"missing">>, <<"mandatory">>}, error_lower)
        THEN "NotPerformed"
    ELSE IF AnyWord({<<"range">>, <<"constraint">>, <<"bounds">>, <<"limit">>}, error_lower)
        THEN "Unknown"
    ELSE IF AnyWord({<<"refused">>, <<"declined">>}, error_lower)
        THEN "Refused"
    ELSE IF AnyWord({<<"not", "applicable">>, <<"n/a">>}, error_lower)
        THEN "NotApplicable"
    ELSE "NoInformation"

_choose_ev_for_error(msg) ==
    LET error_lower == LowerMsg(msg) IN
    IF AnyWord({<<"required">>, <<"missing">>, <<"mandatory">>}, error_lower)
        THEN "NotPerformed"
    ELSE IF AnyWord({<<"type">>, <<"format">>, <<"pattern">>}, error_lower)
        THEN "NoInformation"
    ELSE IF AnyWord({<<"range">>, <<"constraint">>, <<"bounds">>, <<"limit">>}, error_lower)
        THEN "Unknown"
    ELSE IF AnyWord({<<"refused">>, <<"declined">>}, error_lower)
        THEN "Refused"
    ELSE IF AnyWord({<<"not", "applicable">>, <<"n/a">>}, error_lower)
        THEN "NotApplicable"
    ELSE "NoInformation"

ChooseIdle == error_msg = <<>> /\ ev_value = "" /\ ev_pc = "idle"

ChooseInit ==
    /\ error_msg \in SeqsUpTo(MsgWords, MaxMsgWords)
    /\ ev_value = ""
    /\ ev_pc = "input"

ChooseEv ==
    /\ ev_pc = "input"
    /\ ev_value' = _choose_ev_for_error(error_msg)
    /\ ev_pc' = "chosen"
    /\ UNCHANGED <<error_msg, notChoose>>

(***************************************************************************)
(* SDCValidator.auto_correct_with_evs (sdc_validator.py 77-137).           *)
(***************************************************************************)
\* xml_content that ET.fromstring rejects
BadXml == El("", "#unparseable", "", "", <<>>, <<>>)

\* _find_element_by_ct_id: the first element of tree.iter() whose ct-id attribute is ct_id
_find_element_by_ct_id(tree, ct_id) ==
    LET Hit(p) == At(tree, p).attr = ct_id /\ At(tree, p).name # "ev-placeholder"
    IN FirstPath(Iter(tree), Hit)

\* the body of the loop over errors.items() for one (component_ct_id, error_msg)
CorrectOne(st, ct_id, msg) ==
    LET tree == st.tree
        p == _find_element_by_ct_id(tree, ct_id)
    IN IF st.raised \/ p = NoPath THEN st
       ELSE LET label_elem == Find(tree, p, "label")
                field_label == IF label_elem # NoPath THEN At(tree, label_elem).text
                               ELSE <<ct_id>>
                value_elem == Find(tree, p, "value")
                \* elem.remove(value_elem) raises ValueError unless value_elem is a child
                raises == value_elem # NoPath /\ Len(value_elem) # Len(p) + 1
                removed == IF value_elem = NoPath \/ raises THEN At(tree, p)
                           ELSE RemoveKid(At(tree, p), value_elem[Len(value_elem)])
                ev_elem == Leaf("exceptional-value", <<_choose_ev_for_error(msg)>>)
            IN IF raises THEN [st EXCEPT !.raised = TRUE]
               ELSE [tree |-> Put(tree, p, AppendKid(removed, ev_elem)),
                     fields |-> Append(st.fields, field_label),
                     raised |-> FALSE]

RECURSIVE CorrectLoop(_, _, _)
CorrectLoop(st, errors, i) ==
    IF i > Len(errors) THEN st
    ELSE CorrectLoop(CorrectOne(st, errors[i][1], errors[i][2]), errors, i + 1)

\* the whole call: [xml, fields, raised]
auto_correct_with_evs(xml_content, errors) ==
    IF xml_content = BadXml
    THEN [tree |-> xml_content, fields |-> <<>>, raised |-> FALSE]
    ELSE CorrectLoop([tree |-> xml_content, fields |-> <<>>, raised |-> FALSE], errors, 1)

\* The documents handed to the corrector: a data model element holding two
\* components.  A component carries (or not) a ct-id attribute, a label, one
\* value element of some kind, and possibly an exceptional-value child.
ValueKinds == {"none", "value", "nested", "xdcount-value", "xdstring-value", "xdtemporal-date"}

ValueKids(kind) ==
    CASE kind = "none" -> <<>>
      [] kind = "nested" -> <<El("", "reference-range", "", "", <<>>, <<Leaf("value", <<"4", "2">>)>>)>>
      [] OTHER -> <<Leaf(kind, <<"4", "2">>)>>

Component(ct, hasAttr, hasLabel, kind, hasEv) ==
    El("", "ms-", ct, IF hasAttr THEN ct ELSE "", <<>>,
       (IF hasLabel THEN <<Leaf("label", <<"Label of " \o ct>>)>> ELSE <<>>)
       \o ValueKids(kind)
       \o (IF hasEv THEN <<Leaf("exceptional-value", <<"Masked">>)>> ELSE <<>>))

CorrectorDocs ==
    {El("", "dm-", "dm1", "", <<>>, <<Component("f1", a, l, k, e), Component("f2", TRUE, TRUE, k2, FALSE)>>) :
        a \in BOOLEAN, l \in BOOLEAN, k \in ValueKinds, e \in BOOLEAN, k2 \in {"value", "xdstring-value"}}
    \cup {BadXml}

MsgRequired == <<"required", "value", "missing">>
MsgRange == <<"range">>

\* the errors dict of a ValidationResult, as its items() in insertion order
ErrorMaps ==
    {<<>>, <<<<"f1", MsgRequired>>>>, <<<<"f1", MsgRange>>>>, <<<<"f2", MsgRequired>>>>,
     <<<<"zz", MsgRequired>>>>, <<<<"f1", MsgRequired>>, <<"f2", MsgRange>>>>,
     <<<<"f2", MsgRange>>, <<"f1", MsgRequired>>>>}

CorrectIdle ==
    /\ c_xml = BadXml /\ c_errors = <<>> /\ c_out = BadXml /\ c_fields = <<>> /\ c_rdf = <<>>
    /\ c_pc = "idle"

CorrectInit ==
    /\ c_xml \in CorrectorDocs
    /\ c_errors \in ErrorMaps
    /\ c_out = c_xml
    /\ c_fields = <<>>
    /\ c_rdf = <<>>
    /\ c_pc = "input"

\* sdc_validator.auto_correct_with_evs(xml_content, errors) on the input document
AutoCorrect ==
    /\ c_pc = "input"
    /\ LET r == auto_correct_with_evs(c_xml, c_errors) IN
          IF r.raised
          THEN c_pc' = "raised" /\ UNCHANGED <<c_out, c_fields>>
          ELSE c_pc' = "corrected" /\ c_out' = r.tree /\ c_fields' = r.fields
    /\ UNCHANGED <<c_xml, c_errors, c_rdf, notCorrect>>

\* the corrected document handed to the corrector once more with the same errors
AutoCorrectAgain ==
    /\ c_pc = "corrected"
    /\ LET r == auto_correct_with_evs(c_out, c_errors) IN
          IF r.raised
          THEN c_pc' = "raised" /\ UNCHANGED <<c_out, c_fields>>
          ELSE c_pc' = "twice" /\ c_out' = r.tree /\ c_fields' = r.fields
    /\ UNCHANGED <<c_xml, c_errors, c_rdf, notCorrect>>

(***************************************************************************)
(* The Field Metadata Table (wizard_config.FIELD_METADATA) and the XML     *)
(* skeleton (xml_skeleton.xml) of the data model.                          *)
(***************************************************************************)
NoUnits == [ct_id |-> "", label |-> <<>>]

FIELD_METADATA ==
    << [key |-> "f1", type |-> "XdString", label |-> <<"Name">>, units |-> NoUnits],
       [key |-> "f2", type |-> "XdCount", label |-> <<"Count">>,
        units |-> [ct_id |-> "u2", label |-> <<"Count units">>]],
       [key |-> "f3", type |-> "XdBoolean", label |-> <<"Active">>, units |-> NoUnits],
       [key |-> "f4", type |-> "XdQuantity", label |-> <<"Weight">>,
        units |-> [ct_id |-> "u4", label |-> <<"Weight units">>]] >>

FieldKeys == {FIELD_METADATA[i].key : i \in 1..Len(FIELD_METADATA)}

MetaOf(ct) == FIELD_METADATA[CHOOSE i \in 1..Len(FIELD_METADATA) : FIELD_METADATA[i].key = ct]

\* meta.get('ct_id', '')
MetaCtId(meta) == IF fm_ct_id_key THEN meta.key ELSE ""

DM_CT_ID == "dm1"
CLUSTER_CT_ID == "cl1"

PLACEHOLDER_PREFIX == "__PLACEHOLDER__"

\* the placeholder token PLACEHOLDER_PREFIX + key
PH(key) == <<PLACEHOLDER_PREFIX, key>>

HasPlaceholder(text) == PLACEHOLDER_PREFIX \in Range(text)

EV_CODES ==
    [code \in {"NI", "MSK", "INV", "DER", "UNC", "OTH", "NINF", "PINF", "ASKR", "NASK",
               "NAV", "NA", "TRC", "ASKU", "UNK", "QS"} |->
        CASE code = "NI" -> "No Information" [] code = "MSK" -> "Masked"
          [] code = "INV" -> "Invalid" [] code = "DER" -> "Derived"
          [] code = "UNC" -> "Unencoded" [] code = "OTH" -> "Other"
          [] code = "NINF" -> "Negative Infinity" [] code = "PINF" -> "Positive Infinity"
          [] code = "ASKR" -> "Asked and Refused" [] code = "NASK" -> "Not Asked"
          [] code = "NAV" -> "Not Available" [] code = "NA" -> "Not Applicable"
          [] code = "TRC" -> "Trace" [] code = "ASKU" -> "Asked but Unknown"
          [] code = "UNK" -> "Unknown" [] OTHER -> "Sufficient Quantity"]

OPTIONAL_ELEMENTS ==
    {"act", "vtb", "vte", "tr", "modified", "latitude", "longitude", "normal-status",
     "magnitude-status", "accuracy_margin", "precision_digits", "xdstring-language"}

OPTIONAL_CONTAINER_ELEMENTS == {"subject", "provider", "protocol", "workflow", "acs"}

UNITS_ELEMENTS ==
    {"xdcount-units", "xdquantity-units", "xdfloat-units", "xddouble-units", "xdordinal-units"}

REQUIRED_ELEMENTS_DEFAULTS ==
    [tag \in {"creation_timestamp", "instance_id", "instance_version", "current-state"} |->
        CASE tag = "creation_timestamp" -> <<"2026-01-01T00:00:00">>
          [] tag = "instance_id" -> <<"i-", "cuid9">>
          [] tag = "instance_version" -> <<"1", ".", "0">>
          [] OTHER -> <<"">>]

quantified_types == {"XdCount", "XdQuantity", "XdFloat", "XdDouble", "XdOrdinal"}

\* XMLBuilder._get_value_element_name (the table holds no XdTemporal field)
_get_value_element_name(field_type) ==
    CASE field_type = "XdString" -> "xdstring-value"
      [] field_type = "XdBoolean" -> "xdboolean-value"
      [] field_type = "XdCount" -> "xdcount-value"
      [] field_type = "XdQuantity" -> "xdquantity-value"
      [] field_type = "XdFloat" -> "xdfloat-value"
      [] field_type = "XdDouble" -> "xddouble-value"
      [] field_type = "XdLink" -> "xdlink-value"
      [] field_type = "XdFile" -> "xdfile-value"
      [] field_type = "XdOrdinal" -> "xdordinal-value"
      [] field_type = "XdInterval" -> "xdinterval-value"
      [] field_type = "XdToken" -> "xdtoken-value"
      [] field_type = "XdTemporal" -> "xdtemporal-date"
      [] OTHER -> "value"

UnitsElementName(field_type) ==
    CASE field_type = "XdCount" -> "xdcount-units"
      [] field_type = "XdQuantity" -> "xdquantity-units"
      [] field_type = "XdFloat" -> "xdfloat-units"
      [] field_type = "XdDouble" -> "xddouble-units"
      [] OTHER -> "xdordinal-units"

WS == <<"\n">>

Comment(text) == El("", "#comment", "", "", text, <<>>)

IsComment(e) == e.name = "#comment"

\* the element followed by the layout's white space
T(e, w) == [e EXCEPT !.tail = w]

\* the skeleton's element of one data component: label, the optional leaves,
\* the ev-placeholder, the value element and, for a quantified type, its units
SkeletonComponent(meta, w) ==
    LET ct == meta.key
        leaf(name) == T(Leaf(name, PH(name \o "_" \o ct)), w)
        vname == _get_value_element_name(meta.type)
        units == IF meta.type \in quantified_types
                 THEN <<T(El("", UnitsElementName(meta.type), "", "", w,
                             <<T(Leaf("label", PH("label_" \o meta.units.ct_id)), w),
                               T(Leaf("xdstring-value",
                                      PH("xdstring-value_" \o meta.units.ct_id)), w)>>), w)>>
                 ELSE <<>>
    IN El("sdc4", "ms-", ct, "", w,
          <<T(Leaf("label", meta.label), w), leaf("act"),
            T(El("", "ev-placeholder", "", ct, <<>>, <<>>), w),
            leaf("vtb"), leaf("vte"), leaf("tr"), leaf("modified"),
            leaf("latitude"), leaf("longitude"), leaf(vname)>> \o units)

\* the components the skeleton file holds: every entry of the table, or, for
\* a skeleton generated before the first field was added, all but that one
SkeletonFields ==
    IF b_layout = "partial" THEN Tail(FIELD_METADATA) ELSE FIELD_METADATA

xml_skeleton(w) ==
    El("sdc4", "dm-", DM_CT_ID, "", w,
       <<T(Leaf("dm-label", <<"Test Data">>), w),
         T(Leaf("creation_timestamp", PH("creation_timestamp")), w),
         T(Leaf("instance_id", PH("instance_id")), w),
         T(Leaf("instance_version", PH("instance_version")), w),
         T(Leaf("current-state", PH("current-state")), w),
         T(Comment(<<" Optional: subject ">>), w),
         T(El("", "subject", "", "", w, <<T(Leaf("party-name", PH("subject_name")), w)>>), w),
         T(El("sdc4", "ms-", CLUSTER_CT_ID, "", w,
              <<T(Leaf("label", <<"Cluster">>), w)>> \o
              [i \in 1..Len(SkeletonFields) |-> T(SkeletonComponent(SkeletonFields[i], w), w)]), w)>>)

\* _load_skeleton_files: the file's text, or None (NoElem) when it is not there
_skeleton_xml ==
    IF b_layout = "missing" THEN NoElem
    ELSE xml_skeleton(IF b_layout = "indented" THEN WS ELSE <<>>)

(***************************************************************************)
(* XMLBuilder, the string phase (xml_builder.py 148-358, 863-1017).        *)
(***************************************************************************)
\* xml_content.replace(PLACEHOLDER_PREFIX + key, repl) on the document text
RECURSIVE ReplaceDoc(_, _, _)
ReplaceDoc(e, key, repl) ==
    [e EXCEPT !.text = ReplaceAll(e.text, PH(key), repl),
              !.kids = [i \in 1..Len(e.kids) |-> ReplaceDoc(e.kids[i], key, repl)]]

UtcNow == <<"2026-11-05T10:00:00">>

_replace_metadata_placeholders(xml_content, instance_id) ==
    ReplaceDoc(ReplaceDoc(xml_content, "creation_timestamp", UtcNow), "instance_id", instance_id)

\* the overrides of one field; "" and <<>> stand for an absent entry
NoLocation == [set |-> FALSE, lat |-> <<>>, lon |-> <<>>]
NoOverrides ==
    [ev |-> "", units |-> <<>>, act |-> <<>>, vtb |-> <<>>, vte |-> <<>>, tr |-> <<>>,
     mod |-> <<>>, location |-> NoLocation]

\* dict.get(key, {})
GetMeta(metadata_dict, key) ==
    IF key \in DOMAIN metadata_dict THEN metadata_dict[key] ELSE NoOverrides

_replace_optional_metadata(xml_content, ct_id, field_meta) ==
    LET a == IF field_meta.act # <<>>
             THEN ReplaceDoc(xml_content, "act_" \o ct_id, _escape_xml(field_meta.act))
             ELSE xml_content
        b == IF field_meta.vtb # <<>> THEN ReplaceDoc(a, "vtb_" \o ct_id, field_meta.vtb) ELSE a
        c == IF field_meta.vte # <<>> THEN ReplaceDoc(b, "vte_" \o ct_id, field_meta.vte) ELSE b
        d == IF field_meta.tr # <<>> THEN ReplaceDoc(c, "tr_" \o ct_id, field_meta.tr) ELSE c
        e == IF field_meta.mod # <<>> THEN ReplaceDoc(d, "modified_" \o ct_id, field_meta.mod) ELSE d
    IN IF field_meta.location.set
       THEN ReplaceDoc(ReplaceDoc(e, "latitude_" \o ct_id, field_meta.location.lat),
                       "longitude_" \o ct_id, field_meta.location.lon)
       ELSE e

\* no key of the table is the slug of a label, so the static units info is
\* that of the entry whose 'ct_id' is ct_id, when there is one
_replace_units_placeholder(xml_content, ct_id, field_meta, field_type) ==
    IF field_type \notin quantified_types THEN xml_content
    ELSE IF field_meta.units = <<>> THEN xml_content
    ELSE LET hits == {i \in 1..Len(FIELD_METADATA) : MetaCtId(FIELD_METADATA[i]) = ct_id}
             units_info == IF hits = {} THEN NoUnits
                           ELSE FIELD_METADATA[CHOOSE i \in hits : \A j \in hits : i <= j].units
         IN IF units_info.ct_id = "" THEN xml_content
            ELSE ReplaceDoc(ReplaceDoc(xml_content, "label_" \o units_info.ct_id,
                                       _escape_xml(units_info.label)),
                            "xdstring-value_" \o units_info.ct_id, _escape_xml(field_meta.units))

\* the loop body with a value placeholder that is not keyed by the ct_id: the
\* value goes into every placeholder of the value element's name
ReplaceFieldByName(xml_content, meta, form_data, metadata_dict) ==
    IF meta.key \notin DOMAIN form_data THEN xml_content
    ELSE LET ct_id == meta.key
             value == form_data[meta.key]
             field_meta == GetMeta(metadata_dict, meta.key)
             value_elem_name == _get_value_element_name(meta.type)
             formatted_value == IF meta.type = "XdBoolean"
                                THEN (IF Truthy(value) THEN <<"t", "r", "u", "e">>
                                      ELSE <<"f", "a", "l", "s", "e">>)
                                ELSE _escape_xml(Str(value))
             ids == <<"f1", "f2", "f3", "f4", "u2", "u4">>
             fill[i \in 0..Len(ids)] ==
                 IF i = 0 THEN xml_content
                 ELSE ReplaceDoc(fill[i - 1], value_elem_name \o "_" \o ids[i], formatted_value)
             a == IF value.t # "none" /\ ~PyEq(value, PyStr(<<>>))
                  THEN fill[Len(ids)]
                  ELSE xml_content
             b == _replace_optional_metadata(a, ct_id, field_meta)
         IN _replace_units_placeholder(b, ct_id, field_meta, meta.type)

\* the loop body of _replace_field_placeholders for one entry of the table
ReplaceField(xml_content, meta, form_data, metadata_dict) ==
    IF meta.key \notin DOMAIN form_data THEN xml_content
    ELSE LET ct_id == meta.key
             value == form_data[meta.key]
             field_meta == GetMeta(metadata_dict, meta.key)
             value_elem_name == _get_value_element_name(meta.type)
             formatted_value == IF meta.type = "XdBoolean"
                                THEN (IF Truthy(value) THEN <<"t", "r", "u", "e">>
                                      ELSE <<"f", "a", "l", "s", "e">>)
                                ELSE _escape_xml(Str(value))
             a == IF value.t # "none" /\ ~PyEq(value, PyStr(<<>>))
                  THEN ReplaceDoc(xml_content, value_elem_name \o "_" \o ct_id, formatted_value)
                  ELSE xml_content
             b == _replace_optional_metadata(a, ct_id, field_meta)
         IN _replace_units_placeholder(b, ct_id, field_meta, meta.type)

RECURSIVE ReplaceFieldsFrom(_, _, _, _)
ReplaceFieldsFrom(xml_content, i, form_data, metadata_dict) ==
    IF i > Len(FIELD_METADATA) THEN xml_content
    ELSE ReplaceFieldsFrom(ReplaceField(xml_content, FIELD_METADATA[i], form_data, metadata_dict),
                           i + 1, form_data, metadata_dict)

_replace_field_placeholders(xml_content, form_data, metadata_dict) ==
    ReplaceFieldsFrom(xml_content, 1, form_data, metadata_dict)

\* only the subject name of the context step is part of the skeleton
_replace_context_placeholders(xml_content, context_data) ==
    IF "subject_name" \in DOMAIN context_data /\ context_data["subject_name"] # <<>>
    THEN ReplaceDoc(xml_content, "subject_name", _escape_xml(context_data["subject_name"]))
    ELSE xml_content

(***************************************************************************)
(* XMLBuilder, the tree phase (xml_builder.py 360-583): parse, process the *)
(* ev-placeholders, prune, serialize.                                      *)
(***************************************************************************)
\* etree.fromstring: the character data of every node decoded
RECURSIVE ParseXml(_)
ParseXml(e) ==
    [e EXCEPT !.text = IF IsComment(e) THEN e.text ELSE ParseText(e.text),
              !.tail = ParseText(e.tail),
              !.kids = [i \in 1..Len(e.kids) |-> ParseXml(e.kids[i])]]

\* pretty_print: an element without any text node among its children gets
\* its children laid out on lines of their own; below an element that has a
\* text node nothing is touched
RECURSIVE PrettyPrint(_, _)
PrettyPrint(e, format) ==
    LET fmt == /\ format
               /\ e.text = <<>>
               /\ \A i \in 1..Len(e.kids) : e.kids[i].tail = <<>>
    IN IF fmt /\ e.kids # <<>>
       THEN [e EXCEPT !.text = WS,
                      !.kids = [i \in 1..Len(e.kids) |-> T(PrettyPrint(e.kids[i], TRUE), WS)]]
       ELSE [e EXCEPT !.kids = [i \in 1..Len(e.kids) |-> PrettyPrint(e.kids[i], fmt)]]

RECURSIVE EscapeTree(_)
EscapeTree(e) ==
    [e EXCEPT !.text = IF IsComment(e) THEN e.text ELSE SerializeText(e.text),
              !.tail = SerializeText(e.tail),
              !.kids = [i \in 1..Len(e.kids) |-> EscapeTree(e.kids[i])]]

\* etree.tostring(root, pretty_print=True, encoding='UTF-8', xml_declaration=True)
tostring(root) == EscapeTree(PrettyPrint(root, TRUE))

\* the concatenation of a sequence of sequences
RECURSIVE Flatten(_)
Flatten(ss) == IF ss = <<>> THEN <<>> ELSE Head(ss) \o Flatten(Tail(ss))

\* the ev_map of _process_ev_and_prune: ct_id -> ev_code
EvMap(metadata_dict) ==
    LET sel == {i \in 1..Len(FIELD_METADATA) :
                   LET ev_code == GetMeta(metadata_dict, FIELD_METADATA[i].key).ev
                   IN ev_code # "" /\ ev_code \in DOMAIN EV_CODES}
    IN [ct \in {MetaCtId(FIELD_METADATA[i]) : i \in sel} |->
           GetMeta(metadata_dict,
                   FIELD_METADATA[CHOOSE i \in sel :
                       /\ MetaCtId(FIELD_METADATA[i]) = ct
                       /\ \A j \in sel : MetaCtId(FIELD_METADATA[j]) = ct => j <= i].key).ev]

\* the placeholder put back in place of the EV element
EvElementAsPlaceholder(ev_code) == El("", "ev-placeholder", "", ev_code, <<>>, <<>>)

\* <sdc4:CODE><ev-name>name</ev-name></sdc4:CODE>
EvElement(ev_code) == El("sdc4", ev_code, "", "", <<>>, <<Leaf("ev-name", <<EV_CODES[ev_code]>>)>>)

\* _process_ev_placeholders: every ev-placeholder below the root is replaced,
\* at its position, by the EV element of its ct_id, or removed
RECURSIVE _process_ev_placeholders(_, _)
_process_ev_placeholders(e, ev_map) ==
    LET one(kid) ==
            IF kid.ns = "" /\ kid.name = "ev-placeholder"
            THEN IF kid.attr # "" /\ kid.attr \in DOMAIN ev_map
                 THEN <<EvElement(ev_map[kid.attr])>>
                 ELSE <<>>
            ELSE <<_process_ev_placeholders(kid, ev_map)>>
    IN [e EXCEPT !.kids = Flatten([i \in 1..Len(e.kids) |-> one(e.kids[i])])]

\* _find_placeholder_elements with the removals that follow it: a required
\* element gets its default, an optional element is removed, any other
\* element keeps its placeholder
RECURSIVE _find_placeholder_elements(_)
_find_placeholder_elements(e) ==
    IF IsComment(e) THEN e
    ELSE LET marked(kid) ==
                 /\ ~IsComment(kid)
                 /\ \/ /\ HasPlaceholder(kid.text)
                       /\ kid.name \notin DOMAIN REQUIRED_ELEMENTS_DEFAULTS
                       /\ kid.name \in OPTIONAL_ELEMENTS
                    \/ "<!-- Optional:" \in Range(kid.text)
             text == IF HasPlaceholder(e.text) /\ e.name \in DOMAIN REQUIRED_ELEMENTS_DEFAULTS
                     THEN REQUIRED_ELEMENTS_DEFAULTS[e.name]
                     ELSE e.text
         IN [e EXCEPT !.text = text,
                      !.kids = Flatten([i \in 1..Len(e.kids) |->
                                   IF marked(e.kids[i]) THEN <<>>
                                   ELSE <<_find_placeholder_elements(e.kids[i])>>])]

RECURSIVE _is_empty_container(_)
_is_empty_container(element) ==
    IF element.kids = <<>>
    THEN LET text == Strip(element.text) IN
         text = <<>> \/ StartsWith(text, <<"<", "!", "-", "-">>)
    ELSE \A i \in 1..Len(element.kids) :
            LET child == element.kids[i]
                child_text == Strip(child.text)
            IN \/ IsComment(child)
               \/ /\ ~(/\ child_text # <<>>
                       /\ ~StartsWith(child_text, <<"<", "!", "-", "-">>)
                       /\ ~HasPlaceholder(child_text))
                  /\ _is_empty_container(child)

RECURSIVE _prune_empty_containers(_)
_prune_empty_containers(e) ==
    [e EXCEPT !.kids = Flatten([i \in 1..Len(e.kids) |->
        LET kid == e.kids[i] IN
        IF kid.ns = "" /\ kid.name \in OPTIONAL_CONTAINER_ELEMENTS /\ _is_empty_container(kid)
        THEN <<>>
        ELSE <<_prune_empty_containers(kid)>>])]

RECURSIVE _remove_comments(_)
_remove_comments(e) ==
    [e EXCEPT !.kids = Flatten([i \in 1..Len(e.kids) |->
        IF IsComment(e.kids[i]) THEN <<>> ELSE <<_remove_comments(e.kids[i])>>])]

\* the pruning pass on a document text (the parse never fails on the
\* documents of this model, whose substituted values hold no markup)
_process_ev_and_prune(xml_content, metadata_dict) ==
    LET root == ParseXml(xml_content)
        a == _process_ev_placeholders(root, EvMap(metadata_dict))
        b == _find_placeholder_elements(a)
        c == _prune_empty_containers(b)
        d == _remove_comments(c)
    IN tostring(d)

\* a call that ends in an exception
BuildRaised == El("", "#raised", "", "", <<>>, <<>>)

DM_LABEL == <<"Test Data">>

\* XMLBuilder._add_metadata_elements
_add_metadata_elements(instance_id) ==
    <<Leaf("dm-label", DM_LABEL), Leaf("dm-language", <<"en-US">>),
      Leaf("dm-encoding", <<"utf-8">>), Leaf("creation_timestamp", UtcNow),
      Leaf("instance_id", instance_id), Leaf("instance_version", <<"1", ".", "0">>),
      Leaf("current-state", <<"">>)>>

\* XMLBuilder._add_form_fields_fallback: one component per metadata entry
\* whose key is in the form data
_add_form_fields_fallback(form_data) ==
    LET comp(meta) ==
            LET value == form_data[meta.key]
                text == IF meta.type = "XdBoolean"
                        THEN (IF Truthy(value) THEN <<"t", "r", "u", "e">>
                              ELSE <<"f", "a", "l", "s", "e">>)
                        ELSE Str(value)
                value_elem == IF value.t # "none" /\ ~PyEq(value, PyStr(<<>>))
                              THEN <<Leaf(_get_value_element_name(meta.type), text)>>
                              ELSE <<>>
                units_elem == IF meta.type \in quantified_types /\ meta.units # NoUnits
                              THEN <<El("", UnitsElementName(meta.type), "", "", <<>>,
                                        <<Leaf("label", meta.units.label),
                                          Leaf("xdstring-value", <<"">>)>>)>>
                              ELSE <<>>
            IN El("sdc4", "ms-", MetaCtId(meta), "", <<>>,
                  <<Leaf("label", meta.label)>> \o value_elem \o units_elem)
        present == SelectSeq(FIELD_METADATA, LAMBDA meta : meta.key \in DOMAIN form_data)
    IN [i \in 1..Len(present) |-> comp(present[i])]

\* XMLBuilder._build_from_form_fallback: the document built without a skeleton
_build_from_form_fallback(instance_id, form_data, metadata) ==
    IF DM_CT_ID = "" \/ b_cluster_ct_id = "" THEN BuildRaised
    ELSE tostring(El("sdc4", "dm-", DM_CT_ID, "", <<>>,
                     _add_metadata_elements(instance_id) \o
                     <<El("sdc4", "ms-", b_cluster_ct_id, "", <<>>,
                          <<Leaf("label", DM_LABEL \o <<" Data Cluster">>)>> \o
                          _add_form_fields_fallback(form_data))>>))

\* XMLBuilder._build_from_wizard_fallback
_build_from_wizard_fallback(instance_id, wizard_data) ==
    _build_from_form_fallback(instance_id, wizard_data.data, <<>>)

build_from_form(instance_id, form_data, metadata) ==
    IF _skeleton_xml = NoElem THEN _build_from_form_fallback(instance_id, form_data, metadata)
    ELSE LET a == _replace_metadata_placeholders(_skeleton_xml, instance_id)
             b == _replace_field_placeholders(a, form_data, metadata)
         IN _process_ev_and_prune(b, metadata)

\* wizard_data: [setup, context, data]; the posted {ct_id}_ev ... keys are
\* keys of data, and the overrides handed on are the empty dict
build_from_wizard(instance_id, wizard_data) ==
    IF _skeleton_xml = NoElem THEN _build_from_wizard_fallback(instance_id, wizard_data) ELSE
    LET form_data == wizard_data.data
        metadata == <<>>
        a == _replace_metadata_placeholders(_skeleton_xml, instance_id)
        b == ReplaceDoc(a, "instance_version", wizard_data.setup.instance_version)
        c == ReplaceDoc(b, "current-state", wizard_data.setup.current_state)
        d == _replace_context_placeholders(c, wizard_data.context)
        e == _replace_field_placeholders(d, form_data, metadata)
    IN _process_ev_and_prune(e, metadata)

(***************************************************************************)
(* JSONExtractor (json_extractor.py 44-136, 166-278) and                   *)
(* JSONInstanceGenerator (json_instance_generator.py 152-344).             *)
(***************************************************************************)
\* ET.fromstring: character data decoded; the parser builds no comment nodes
ET_fromstring(xml_content) == _remove_comments(ParseXml(xml_content))

VALUE_ELEMENT_NAMES ==
    <<"xdstring-value", "xdboolean-value", "xdcount-value", "xdquantity-value",
      "xdfloat-value", "xddouble-value", "xdlink-value", "xdfile-value", "xdordinal-value",
      "xdtemporal-date", "xdtemporal-time", "xdtemporal-datetime", "xdtemporal-duration",
      "xdtemporal-day", "xdtemporal-month", "xdtemporal-year", "xdtemporal-year-month",
      "xdtemporal-month-day">>

\* `elem is not None and elem.text`
HasText(e) == e # NoElem /\ e.text # <<>>

TextTrue == <<"t", "r", "u", "e">>
TextFalse == <<"f", "a", "l", "s", "e">>

\* JSONExtractor._parse_value: the type is guessed from the text
SniffValue(value_str) ==
    IF Lower(value_str) \in {TextTrue, TextFalse} THEN PyBool(Lower(value_str) = TextTrue)
    ELSE IF "." \notin Range(value_str) /\ IsIntText(value_str) THEN PyInt(IntVal(value_str))
    ELSE IF IsFloatText(value_str) THEN PyFloat(FloatVal(value_str))
    ELSE PyStr(value_str)

\* JSONExtractor._extract_field; <<>> and has_value = FALSE stand for a
\* missing key (the skeleton has no location element)
_extract_field(elem) ==
    LET label_elem == FindIn(elem, "label")
        label == IF HasText(label_elem) THEN label_elem.text ELSE <<>>
        ev_elem == FindIn(elem, "exceptional-value")
        hits == {k \in 1..Len(VALUE_ELEMENT_NAMES) : HasText(FindIn(elem, VALUE_ELEMENT_NAMES[k]))}
        value_text == IF hits = {} THEN <<>>
                      ELSE FindIn(elem, VALUE_ELEMENT_NAMES[CHOOSE k \in hits :
                                                               \A j \in hits : k <= j]).text
        units_elem == FindIn(elem, "units")
        vtb_elem == FindIn(elem, "valid-time-begin")
    IN IF HasText(ev_elem)
       THEN [label |-> label, exceptional_value |-> ev_elem.text, has_value |-> FALSE,
             value |-> PyNone, units |-> <<>>, valid_time_begin |-> <<>>]
       ELSE [label |-> label, exceptional_value |-> <<>>, has_value |-> value_text # <<>>,
             value |-> IF value_text # <<>> THEN SniffValue(value_text) ELSE PyNone,
             units |-> IF HasText(units_elem) THEN units_elem.text ELSE <<>>,
             valid_time_begin |-> IF HasText(vtb_elem) THEN vtb_elem.text ELSE <<>>]

\* `field_data if field_data else None`
FieldDataEmpty(fd) ==
    fd.label = <<>> /\ fd.exceptional_value = <<>> /\ ~fd.has_value /\ fd.units = <<>>
        /\ fd.valid_time_begin = <<>>

\* JSONExtractor.extract(xml_content)['fields']: every ms-* element that has
\* a value element or an exceptional-value below it, keyed by its ct_id
JSONExtractor_extract(xml_content) ==
    LET tree == ET_fromstring(xml_content)
        paths == Iter(tree)
        isField(p) ==
            LET elem == At(tree, p) IN
            /\ elem.name = "ms-" /\ elem.id # ""
            /\ \/ \E k \in 1..Len(VALUE_ELEMENT_NAMES) : FindIn(elem, VALUE_ELEMENT_NAMES[k]) # NoElem
               \/ FindIn(elem, "exceptional-value") # NoElem
            /\ ~FieldDataEmpty(_extract_field(elem))
        sel == {i \in 1..Len(paths) : isField(paths[i])}
    IN [ct \in {At(tree, paths[i]).id : i \in sel} |->
           _extract_field(At(tree, paths[CHOOSE i \in sel :
                                 /\ At(tree, paths[i]).id = ct
                                 /\ \A j \in sel : At(tree, paths[j]).id = ct => j <= i]))]

\* the search_parts of _extract_fields_recursive, in the order of the
\* recursion: for each recorded element str(value), then its label
JSONExtractor_search_parts(xml_content) ==
    LET tree == ET_fromstring(xml_content)
        paths == Iter(tree)
        parts(p) ==
            LET elem == At(tree, p)
                fd == _extract_field(elem)
            IN IF /\ elem.name = "ms-" /\ elem.id # ""
                  /\ \/ \E k \in 1..Len(VALUE_ELEMENT_NAMES) :
                            FindIn(elem, VALUE_ELEMENT_NAMES[k]) # NoElem
                     \/ FindIn(elem, "exceptional-value") # NoElem
                  /\ ~FieldDataEmpty(fd)
               THEN (IF fd.has_value THEN <<Str(fd.value)>> ELSE <<>>)
                        \o (IF fd.label # <<>> THEN <<fd.label>> ELSE <<>>)
               ELSE <<>>
    IN Flatten([i \in 1..Len(paths) |-> parts(paths[i])])

EV_CODE_LIST == DOMAIN EV_CODES

\* JSONInstanceGenerator._extract_ev: the first child named after an EV code
_extract_ev(elem) ==
    LET hits == {i \in 1..Len(elem.kids) : elem.kids[i].name \in EV_CODE_LIST}
    IN IF hits = {} THEN "" ELSE elem.kids[CHOOSE i \in hits : \A j \in hits : i <= j].name

\* JSONInstanceGenerator._parse_value: the type comes from the metadata
TypedValue(value_str, field_type) ==
    IF field_type = "XdBoolean" THEN PyBool(Lower(value_str) = TextTrue)
    ELSE IF field_type \in {"XdCount", "XdOrdinal"}
         THEN (IF IsIntText(value_str) THEN PyInt(IntVal(value_str)) ELSE PyStr(value_str))
    ELSE IF field_type \in {"XdQuantity", "XdFloat", "XdDouble"}
         THEN (IF IsFloatText(value_str) THEN PyFloat(FloatVal(value_str)) ELSE PyStr(value_str))
    ELSE PyStr(value_str)

\* JSONInstanceGenerator._extract_value (the table holds no XdTemporal field)
_extract_value(elem, field_type) ==
    LET value_elem == FindIn(elem, _get_value_element_name(field_type)) IN
    IF ~HasText(value_elem) THEN PyNone
    ELSE IF StartsWith(value_elem.text, <<PLACEHOLDER_PREFIX>>) THEN PyNone
    ELSE TypedValue(value_elem.text, field_type)

_extract_units_value(elem, field_type) ==
    IF field_type \notin quantified_types THEN <<>>
    ELSE LET units_elem == FindIn(elem, UnitsElementName(field_type)) IN
         IF units_elem = NoElem THEN <<>>
         ELSE LET value_elem == FindIn(units_elem, "xdstring-value") IN
              IF ~HasText(value_elem) THEN <<>>
              ELSE IF StartsWith(value_elem.text, <<PLACEHOLDER_PREFIX>>) THEN <<>>
              ELSE value_elem.text

_extract_field_data(elem, field_type) ==
    [ev |-> _extract_ev(elem),
     value |-> _extract_value(elem, field_type),
     units |-> _extract_units_value(elem, field_type)]

\* JSONInstanceGenerator.generate(xml_content)['fields'], keyed by label
JSONInstanceGenerator_generate(xml_content) ==
    LET root == ET_fromstring(xml_content)
        paths == Iter(root)
        data(p) == _extract_field_data(At(root, p), MetaOf(At(root, p).id).type)
        isField(p) ==
            LET elem == At(root, p) IN
            /\ elem.name = "ms-" /\ elem.id \in FieldKeys
            /\ ~(data(p).ev = "" /\ data(p).value.t = "none" /\ data(p).units = <<>>)
        sel == {i \in 1..Len(paths) : isField(paths[i])}
    IN [field_name \in {MetaOf(At(root, paths[i]).id).label : i \in sel} |->
           data(paths[CHOOSE i \in sel :
                    /\ MetaOf(At(root, paths[i]).id).label = field_name
                    /\ \A j \in sel : MetaOf(At(root, paths[j]).id).label = field_name => j <= i])]

(***************************************************************************)
(* One build: the inputs, the two entry points, a second pruning pass and  *)
(* the two JSON projections of the built document.                         *)
(***************************************************************************)
Absent == [t |-> "absent"]

\* a dict from the keys whose value is not Absent
DictOf(f) == [k \in {k \in DOMAIN f : f[k].t # "absent"} |-> f[k]]

StringValues == {Absent, PyStr(<<>>), PyStr(<<"1", "2">>), PyStr(TextTrue), PyStr(<<"a", "&">>)}
CountValues == {PyNone, PyInt(0), PyInt(42)}
BooleanValues == {PyBool(FALSE), PyBool(TRUE)}
QuantityValues == {Absent, PyDec(<<"1", ".", "5", "0">>, 150)}

FormInputs ==
    {DictOf([k \in FieldKeys |->
                CASE k = "f1" -> v1 [] k = "f2" -> v2 [] k = "f3" -> v3 [] OTHER -> v4]) :
        v1 \in StringValues, v2 \in CountValues, v3 \in BooleanValues, v4 \in QuantityValues}

\* an EV selection for one field ("ZZ" is not an EV code), units for the
\* quantified fields, a valid-time begin and a location for f2
EvSelections == {<<"", "">>, <<"f1", "NASK">>, <<"f2", "NASK">>, <<"f2", "ZZ">>}

OverridesOf(evsel, withUnits, withTimeLoc) ==
    LET ov(k) == [NoOverrides EXCEPT
                     !.ev = IF evsel[1] = k THEN evsel[2] ELSE "",
                     !.units = IF withUnits /\ MetaOf(k).type \in quantified_types
                               THEN <<"k", "g">> ELSE <<>>,
                     !.vtb = IF withTimeLoc /\ k = "f2" THEN <<"2024-01-01T00:00:00">> ELSE <<>>,
                     !.location = IF withTimeLoc /\ k = "f2"
                                  THEN [set |-> TRUE, lat |-> <<"1", ".", "5">>, lon |-> <<"2">>]
                                  ELSE NoLocation]
    IN [k \in {k \in FieldKeys : ov(k) # NoOverrides} |-> ov(k)]

MetaInputs ==
    {OverridesOf(evsel, FALSE, FALSE) : evsel \in EvSelections}
        \cup {OverridesOf(<<"", "">>, TRUE, FALSE), OverridesOf(<<"", "">>, TRUE, TRUE),
              OverridesOf(<<"f2", "NASK">>, TRUE, TRUE)}

ContextInputs == {<<>>, [k \in {"subject_name"} |-> <<"A", "l">>]}

InstanceId == <<"i-", "cuid1">>

\* WizardStepView._extract_component_metadata: the posted {ct_id}_ev keys,
\* merged into the step-2 data next to the cleaned field values
PostedKeys(meta) ==
    LET cts == {k \in DOMAIN meta : meta[k].ev # ""}
    IN [key \in {k \o "_ev" : k \in cts} |->
           PyStr(<<meta[CHOOSE k \in cts : k \o "_ev" = key].ev>>)]

\* WizardState.get_all_data
WizardData ==
    [setup |-> [instance_version |-> <<"1">>, current_state |-> <<"d", "r", "a", "f", "t">>],
     context |-> b_context,
     data |-> b_form @@ PostedKeys(b_meta)]

BuildIdle ==
    /\ fm_ct_id_key = FALSE /\ b_layout = "idle" /\ b_cluster_ct_id = "" /\ b_entry = "idle"
    /\ b_form = <<>> /\ b_meta = <<>> /\ b_context = <<>>
    /\ b_doc = NoElem /\ b_doc2 = NoElem /\ j_flat = <<>> /\ j_nested = <<>> /\ j_search = <<>> /\ b_pc = "idle"

BuildInit ==
    /\ fm_ct_id_key \in BOOLEAN
    /\ b_layout \in {"indented", "compact", "missing"}
    /\ b_entry \in {"form", "wizard"}
    /\ b_cluster_ct_id \in IF b_entry = "wizard" THEN {""}
                           ELSE IF b_layout = "missing" THEN {"", CLUSTER_CT_ID}
                           ELSE {CLUSTER_CT_ID}
    /\ b_form \in FormInputs
    /\ b_meta \in IF b_layout = "missing" THEN {<<>>} ELSE MetaInputs
    /\ b_context \in IF b_entry = "wizard" THEN ContextInputs ELSE {<<>>}
    /\ b_doc = NoElem /\ b_doc2 = NoElem /\ j_flat = <<>> /\ j_nested = <<>> /\ j_search = <<>>
    /\ b_pc = "input"

\* the overrides that reach the pruning pass of the entry point
PassedMetadata == IF b_entry = "form" THEN b_meta ELSE <<>>

BuildFromForm ==
    /\ b_pc = "input" /\ b_entry = "form"
    /\ LET r == build_from_form(InstanceId, b_form, b_meta) IN
          IF r = BuildRaised THEN b_pc' = "raised" /\ UNCHANGED b_doc
          ELSE b_pc' = "built" /\ b_doc' = r
    /\ UNCHANGED <<fm_ct_id_key, b_layout, b_cluster_ct_id, b_entry, b_form, b_meta, b_context, b_doc2,
                   j_flat, j_nested, j_search, notBuild>>

BuildFromWizard ==
    /\ b_pc = "input" /\ b_entry = "wizard"
    /\ LET r == build_from_wizard(InstanceId, WizardData) IN
          IF r = BuildRaised THEN b_pc' = "raised" /\ UNCHANGED b_doc
          ELSE b_pc' = "built" /\ b_doc' = r
    /\ UNCHANGED <<fm_ct_id_key, b_layout, b_cluster_ct_id, b_entry, b_form, b_meta, b_context, b_doc2,
                   j_flat, j_nested, j_search, notBuild>>

\* the pruning pass run on the document it produced
PruneAgain ==
    /\ b_pc = "built"
    /\ b_doc2' = _process_ev_and_prune(b_doc, PassedMetadata)
    /\ b_pc' = "repruned"
    /\ UNCHANGED <<fm_ct_id_key, b_layout, b_cluster_ct_id, b_entry, b_form, b_meta, b_context, b_doc,
                   j_flat, j_nested, j_search, notBuild>>

\* both JSON projections of the built document
ExtractJson ==
    /\ b_pc = "built"
    /\ j_flat' = JSONExtractor_extract(b_doc)
    /\ j_nested' = JSONInstanceGenerator_generate(b_doc)
    /\ j_search' = JSONExtractor_search_parts(b_doc)
    /\ b_pc' = "extracted"
    /\ UNCHANGED <<fm_ct_id_key, b_layout, b_cluster_ct_id, b_entry, b_form, b_meta, b_context, b_doc,
                   b_doc2, notBuild>>

\* form data with an entry the field metadata does not know ("zz"), for a
\* skeleton that may lack the component of f1
SkipForms ==
    {DictOf([k \in FieldKeys \cup {"zz"} |->
                CASE k = "f1" -> v1 [] k = "f2" -> v2 [] k = "f3" -> PyBool(TRUE)
                  [] k = "f4" -> v4 [] OTHER -> vz]) :
        v1 \in {Absent, PyStr(<<"1", "2">>)}, v2 \in {PyNone, PyInt(42)},
        v4 \in QuantityValues, vz \in {Absent, PyNone, PyStr(<<"1", "2">>)}}

SkipMetaInputs ==
    {<<>>, OverridesOf(<<"f1", "NASK">>, FALSE, FALSE), OverridesOf(<<"", "">>, TRUE, TRUE)}

SkipInit ==
    /\ fm_ct_id_key \in BOOLEAN
    /\ b_layout \in {"indented", "compact", "partial"}
    /\ b_entry \in {"form", "wizard"}
    /\ b_cluster_ct_id = IF b_entry = "wizard" THEN "" ELSE CLUSTER_CT_ID
    /\ b_form \in SkipForms
    /\ b_meta \in SkipMetaInputs
    /\ b_context = <<>>
    /\ b_doc = NoElem /\ b_doc2 = NoElem /\ j_flat = <<>> /\ j_nested = <<>> /\ j_search = <<>>
    /\ b_pc = "input"

(***************************************************************************)
(* RDFExtractor._extract_component_triple_term: the literal of the quoted  *)
(* triple (rdf_extractor.py 298-314) and _escape_turtle (421-439).         *)
(***************************************************************************)
XSD_DATATYPES ==
    {"XdString", "XdBoolean", "XdCount", "XdOrdinal", "XdQuantity", "XdFloat", "XdDouble",
     "XdTemporal", "XdLink", "XdFile"}

QUOTE == "\""
BACKSLASH == "\\"

\* five replacements, the backslash first
_escape_turtle(value) ==
    LET a == ReplaceAll(value, <<BACKSLASH>>, <<BACKSLASH, BACKSLASH>>)
        b == ReplaceAll(a, <<QUOTE>>, <<BACKSLASH, QUOTE>>)
        c == ReplaceAll(b, <<"\n">>, <<BACKSLASH, "n">>)
        d == ReplaceAll(c, <<"\r">>, <<BACKSLASH, "r">>)
    IN ReplaceAll(d, <<"\t">>, <<BACKSLASH, "t">>)

\* value_literal of _extract_component_triple_term
value_literal(field_type, value) ==
    LET escaped_value == _escape_turtle(value) IN
    IF field_type = "XdBoolean" THEN Lower(value)
    ELSE IF field_type \in {"XdCount", "XdOrdinal"} THEN value
    ELSE IF field_type \in {"XdQuantity", "XdFloat", "XdDouble"} THEN value
    ELSE <<QUOTE>> \o escaped_value \o <<QUOTE>>

\* the characters a value element's text is drawn from, and the texts
MaxValueLen == 3
ValueChars == {"5", "T", QUOTE, BACKSLASH, "\n", "\r", "\t"}
ValueTexts == SeqsUpTo(ValueChars, MaxValueLen) \ {<<>>}

RdfIdle == r_type = "" /\ r_value = <<>> /\ r_literal = <<>> /\ r_pc = "idle"

\* a component with a non-empty value element (line 286: value_elem.text is truthy)
RdfInit ==
    /\ r_type \in XSD_DATATYPES
    /\ r_value \in ValueTexts
    /\ r_literal = <<>>
    /\ r_pc = "input"

ExtractTripleTerm ==
    /\ r_pc = "input"
    /\ r_literal' = value_literal(r_type, r_value)
    /\ r_pc' = "emitted"
    /\ UNCHANGED <<r_type, r_value, notRdf>>

(***************************************************************************)
(* RDFExtractor.extract (rdf_extractor.py 130-185) on the document the     *)
(* corrector returned: one reifier block per known component that has a    *)
(* value or an EV.                                                         *)
(***************************************************************************)
VALUE_ELEMENTS(field_type) ==
    CASE field_type = "XdString" -> "xdstring-value"
      [] field_type = "XdBoolean" -> "xdboolean-value"
      [] field_type = "XdCount" -> "xdcount-value"
      [] field_type = "XdOrdinal" -> "xdordinal-value"
      [] field_type = "XdQuantity" -> "xdquantity-value"
      [] field_type = "XdFloat" -> "xdfloat-value"
      [] field_type = "XdDouble" -> "xddouble-value"
      [] field_type = "XdLink" -> "xdlink-value"
      [] field_type = "XdFile" -> "xdfile-value"
      [] OTHER -> "value"

\* the first child whose tag is one of the 16 EV codes
_find_ev_element(elem) ==
    LET hits == {i \in 1..Len(elem.kids) : elem.kids[i].name \in DOMAIN EV_CODES}
    IN IF hits = {} THEN NoElem ELSE elem.kids[CHOOSE i \in hits : \A j \in hits : i <= j]

NoBlock == [ct_id |-> "", head |-> "", literal |-> <<>>, ev |-> ""]

\* the block of one ms-<ct_id> element: its first line and its sdc4:ev line
_extract_component_triple_term(elem, ct_id) ==
    LET field_type == MetaOf(ct_id).type
        value_elem == FindIn(elem, VALUE_ELEMENTS(field_type))
        ev_elem == _find_ev_element(elem)
        ev_code == IF ev_elem # NoElem THEN ev_elem.name ELSE ""
        has_value == HasText(value_elem)
    IN IF ~has_value /\ ev_code = "" THEN NoBlock
       ELSE IF has_value
       THEN [ct_id |-> ct_id, head |-> "rdf:reifies",
             literal |-> value_literal(field_type, value_elem.text), ev |-> ev_code]
       ELSE [ct_id |-> ct_id, head |-> "a sdc4:ExceptionalValueStatement",
             literal |-> <<>>, ev |-> ev_code]

\* the blocks in the order of tree.iter(); an unparseable document gives ''
RDFExtractor_extract(xml_content) ==
    IF xml_content = BadXml THEN <<>>
    ELSE LET paths == Iter(xml_content)
             block(p) == LET elem == At(xml_content, p) IN
                         IF elem.name = "ms-" /\ elem.id \in FieldKeys
                         THEN _extract_component_triple_term(elem, elem.id)
                         ELSE NoBlock
         IN SelectSeq([i \in 1..Len(paths) |-> block(paths[i])], LAMBDA b : b # NoBlock)

\* the corrected document handed to the RDF extractor
ExtractRdf ==
    /\ c_pc = "corrected"
    /\ c_rdf' = RDFExtractor_extract(c_out)
    /\ c_pc' = "rdf"
    /\ UNCHANGED <<c_xml, c_errors, c_out, c_fields, notCorrect>>

(***************************************************************************)
(* The wizard session (wizard_state.py, wizard.py) and the two pipelines   *)
(* that persist an instance: WizardCompleteView.get (wizard.py 286-377)    *)
(* and BulkImportProcessor._process_single_file (bulk_import.py 203-337).  *)
(* The validator is an oracle; a document is its body and the instance id  *)
(* written in it.                                                          *)
(***************************************************************************)
MaxRequests == 3

WizardSteps == 0..3

\* WizardStepConfig.get_visible_steps: steps 1 and 3 depend on the data model
VisibleSets == {{0, 1, 2, 3}, {0, 2, 3}, {0, 1, 2}, {0, 2}}

\* instance ids are texts: "i-" or "i-ev-" followed by a cuid; NoId is None
NoId == <<>>
NewId(k) == <<"i-", "c">> \o IntStr(k)

NoDoc == [body |-> "none", id |-> NoId]
NoRow == [instance_id |-> NoId, doc |-> NoDoc, validation_status |-> "", rdf_sync_status |-> ""]

\* xml_content.replace(old, new) on the instance id written in the document
ReplaceId(doc, old, new) == IF old # NoId /\ doc.id = old THEN [doc EXCEPT !.id = new] ELSE doc

\* WizardState._is_step_conditional
_is_step_conditional(step) ==
    IF step = 1 THEN 1 \notin w_visible
    ELSE IF step = 3 THEN 3 \notin w_visible
    ELSE FALSE

\* can_proceed_to_step with no step skipped: every earlier step must be completed
CanProceedAllCompleted(step) ==
    \/ step = 0
    \/ \A i \in 0..(step - 1) : i \in w_completed

\* WizardState.can_proceed_to_step
can_proceed_to_step(step) ==
    \/ step = 0
    \/ \A i \in 0..(step - 1) : i \notin w_completed => _is_step_conditional(i)

\* WizardState.generate_instance_id: the id of the session, a new one if it has none
generate_instance_id == IF w_instance_id = NoId THEN NewId(n_cuid + 1) ELSE w_instance_id

\* the session after WizardState.build_xml
BuildXml ==
    /\ w_instance_id' = generate_instance_id
    /\ n_cuid' = IF w_instance_id = NoId THEN n_cuid + 1 ELSE n_cuid
    /\ w_builds' = w_builds + 1

\* no step was requested yet
NoGet == [step |-> -1, response |-> "none", to |-> -1]

\* WizardStepConfig.get_visible_steps()[0]
FirstVisibleStep == CHOOSE s \in w_visible : \A t \in w_visible : s <= t

\* the response of WizardStepView.get: a redirect or the rendered page
WizardStepView_get(step) ==
    IF step \notin w_visible
    THEN [step |-> step, response |-> "redirect wizard-start", to |-> -1]
    ELSE IF ~can_proceed_to_step(step)
    THEN [step |-> step, response |-> "redirect wizard-step", to |-> FirstVisibleStep]
    ELSE [step |-> step, response |-> "render", to |-> -1]

PipeIdle ==
    /\ w_visible = {} /\ w_completed = {} /\ w_instance_id = NoId /\ w_builds = 0
    /\ w_get = NoGet
    /\ n_cuid = 0 /\ n_requests = 0 /\ db = <<>>
    /\ p_mode = "none" /\ p_pc = "off" /\ p_instance_id = NoId /\ p_built = NoDoc
    /\ p_doc = NoDoc /\ p_is_valid = FALSE /\ p_status = "" /\ p_validations = 0
    /\ p_corrections = 0 /\ p_saved = NoRow /\ p_upload = "none" /\ p_result = "none"

\* an empty session, an empty table and no pipeline running
PipeInit ==
    /\ w_visible \in VisibleSets
    /\ w_completed = {} /\ w_instance_id = NoId /\ w_builds = 0 /\ w_get = NoGet
    /\ n_cuid = 0 /\ n_requests = 0 /\ db = <<>>
    /\ p_mode = "none" /\ p_pc = "idle" /\ p_instance_id = NoId /\ p_built = NoDoc
    /\ p_doc = NoDoc /\ p_is_valid = FALSE /\ p_status = "" /\ p_validations = 0
    /\ p_corrections = 0 /\ p_saved = NoRow /\ p_upload = "none" /\ p_result = "none"

\* a request arrives while no pipeline is running
Request ==
    /\ p_pc = "idle"
    /\ n_requests < MaxRequests
    /\ n_requests' = n_requests + 1

\* WizardStartView.get: clear the session and generate the instance id upfront
WizardStart ==
    /\ Request
    /\ w_completed' = {}
    /\ w_instance_id' = NewId(n_cuid + 1)
    /\ n_cuid' = n_cuid + 1
    /\ UNCHANGED <<w_visible, w_get, w_builds, db, p_pc, p_result, runVars, notPipe>>

\* WizardStepView.get: the step-3 page renders a preview built by build_xml
StepGet ==
    /\ Request
    /\ \E step \in WizardSteps :
          /\ w_get' = WizardStepView_get(step)
          /\ IF WizardStepView_get(step).response = "render" /\ step = 3
             THEN BuildXml
             ELSE UNCHANGED <<w_instance_id, n_cuid, w_builds>>
    /\ UNCHANGED <<w_visible, w_completed, db, p_pc, p_result, runVars, notPipe>>

\* WizardStepView.post: an invalid form re-renders the page (with the preview
\* on step 3), a valid one is saved and marks the step completed
StepPost ==
    /\ Request
    /\ \E step \in WizardSteps, is_valid \in BOOLEAN :
          IF ~is_valid
          THEN /\ IF step = 3 THEN BuildXml ELSE UNCHANGED <<w_instance_id, n_cuid, w_builds>>
               /\ UNCHANGED w_completed
          ELSE /\ w_completed' = w_completed \cup {step}
               /\ UNCHANGED <<w_instance_id, n_cuid, w_builds>>
    /\ UNCHANGED <<w_visible, w_get, db, p_pc, p_result, runVars, notPipe>>

\* the locals of a run that starts
StartRun(mode, instance_id, doc) ==
    /\ p_mode' = mode /\ p_instance_id' = instance_id /\ p_built' = doc /\ p_doc' = doc
    /\ p_is_valid' = FALSE /\ p_status' = "valid" /\ p_validations' = 0 /\ p_corrections' = 0
    /\ p_saved' = NoRow /\ p_upload' = "none" /\ p_result' = "none"
    /\ p_pc' = "built"

\* WizardCompleteView.get, lines 294-295: instance_id is read before build_xml
CompleteBuild ==
    /\ Request
    /\ BuildXml
    /\ StartRun("wizard", w_instance_id, [body |-> "built", id |-> generate_instance_id])
    /\ UNCHANGED <<w_visible, w_get, w_completed, db, notPipe>>

\* BulkImportProcessor._assign_new_instance_id: the new id is written into
\* the file's instance_id element when find('.//instance_id') finds one
_assign_new_instance_id(has_instance_id, new_instance_id) ==
    [body |-> "file", id |-> IF has_instance_id THEN new_instance_id ELSE NoId]

\* _process_single_file, lines 215-224: read the file and assign a new instance id
BulkRead ==
    /\ Request
    /\ n_cuid' = n_cuid + 1
    /\ \E has_instance_id \in BOOLEAN :
          StartRun("bulk", NewId(n_cuid + 1),
                   _assign_new_instance_id(has_instance_id, NewId(n_cuid + 1)))
    /\ UNCHANGED <<w_visible, w_get, w_completed, w_instance_id, w_builds, db, notPipe>>

\* validator.validate(xml_content)
Validate ==
    /\ p_pc = "built"
    /\ p_is_valid' \in BOOLEAN
    /\ p_validations' = p_validations + 1
    /\ p_pc' = "validated"
    /\ UNCHANGED <<sessionVars, db, p_result, p_mode, p_instance_id, p_built, p_doc, p_status,
                   p_corrections, p_saved, p_upload, notPipe>>

\* the run ends in the outer except clause
Aborted == p_pc' = "idle" /\ p_result' = "error"

\* the EV marker of the wizard (wizard.py 315-322): None has no startswith
WizardEvId(instance_id) ==
    IF instance_id = NoId THEN [raised |-> TRUE, id |-> NoId]
    ELSE IF Head(instance_id) = "i-" /\ ~(Len(instance_id) >= 2 /\ instance_id[2] = "ev-")
         THEN [raised |-> FALSE, id |-> <<"i-", "ev-">> \o Tail(instance_id)]
         ELSE [raised |-> FALSE, id |-> instance_id]

\* the id left without the marker
BulkEvIdUnmarked(instance_id) == instance_id

\* the EV marker of the bulk import (bulk_import.py 248-253)
BulkEvId(instance_id) ==
    <<"i-", "ev-">> \o SelectSeq(instance_id, LAMBDA c : c \notin {"i-", "ev-"})

\* the branch taken when the validator reports errors: the corrector runs and
\* the instance id gets its EV marker
Correct ==
    /\ p_pc = "validated" /\ ~p_is_valid
    /\ p_corrections' = p_corrections + 1
    /\ LET corrected == [p_doc EXCEPT !.body = "corrected"]
           marked == IF p_mode = "wizard" THEN WizardEvId(p_instance_id)
                     ELSE [raised |-> FALSE, id |-> BulkEvId(p_instance_id)]
           old == IF p_mode = "wizard" THEN w_instance_id ELSE p_instance_id
       IN IF marked.raised
          THEN /\ Aborted
               /\ p_doc' = corrected
               /\ UNCHANGED <<p_instance_id, p_status>>
          ELSE /\ p_instance_id' = marked.id
               /\ p_doc' = IF marked.id # p_instance_id THEN ReplaceId(corrected, old, marked.id)
                           ELSE corrected
               /\ p_status' = "valid_with_ev"
               /\ p_pc' = "checked"
               /\ UNCHANGED p_result
    /\ UNCHANGED <<sessionVars, db, p_mode, p_built, p_is_valid, p_validations, p_saved,
                   p_upload, notPipe>>

\* the branch taken when the validator reports no error
Accept ==
    /\ p_pc = "validated" /\ p_is_valid
    /\ p_pc' = "checked"
    /\ UNCHANGED <<sessionVars, db, p_result, runVars, notPipe>>

\* the JSON projections and instance.save() in transaction.atomic(); instance_id
\* is the primary key of the table
Save ==
    /\ p_pc = "checked"
    /\ IF p_instance_id = NoId
       THEN Aborted /\ UNCHANGED <<db, p_saved>>
       ELSE LET row == [instance_id |-> p_instance_id, doc |-> p_doc,
                        validation_status |-> p_status, rdf_sync_status |-> "pending"]
            IN db' = Append(db, row) /\ p_saved' = row /\ p_pc' = "saved" /\ UNCHANGED p_result
    /\ UNCHANGED <<sessionVars, p_mode, p_instance_id, p_built, p_doc, p_is_valid, p_status,
                   p_validations, p_corrections, p_upload, notPipe>>

\* what the triplestore side can do: no client, an empty RDF text, upload_graph
\* returning True or False, the extraction raising, the upload raising
UploadOutcomes == {"disabled", "empty", "true", "false", "extract_raises", "upload_raises"}

\* the upload run inside the transaction, with no handler of its own
UploadInTransaction(rows, outcome) ==
    IF outcome \in {"extract_raises", "upload_raises"}
    THEN [rows |-> SubSeq(rows, 1, Len(rows) - 1), raised |-> TRUE]
    ELSE [rows |-> rows, raised |-> FALSE]

\* _upload_rdf in its try/except, after the transaction: the table afterwards
UploadAfterSave(rows, outcome) ==
    LET status == CASE outcome = "disabled" -> "disabled"
                    [] outcome = "empty" -> rows[Len(rows)].rdf_sync_status
                    [] outcome = "true" -> "synced"
                    [] OTHER -> "failed"
    IN [rows |-> [rows EXCEPT ![Len(rows)].rdf_sync_status = status], raised |-> FALSE]

Upload ==
    /\ p_pc = "saved"
    /\ \E outcome \in UploadOutcomes :
          LET r == UploadAfterSave(db, outcome) IN
          /\ p_upload' = outcome
          /\ db' = r.rows
          /\ IF r.raised THEN Aborted ELSE p_pc' = "uploaded" /\ UNCHANGED p_result
    /\ UNCHANGED <<sessionVars, p_mode, p_instance_id, p_built, p_doc, p_is_valid, p_status,
                   p_validations, p_corrections, p_saved, notPipe>>

\* the end of the run: the wizard clears its session and redirects to the
\* instance, the bulk import returns ImportResult(success=True)
Finish ==
    /\ p_pc = "uploaded"
    /\ p_pc' = "idle"
    /\ p_result' = "success"
    /\ IF p_mode = "wizard"
       THEN w_completed' = {} /\ w_instance_id' = NoId
       ELSE UNCHANGED <<w_completed, w_instance_id>>
    /\ UNCHANGED <<w_visible, w_get, w_builds, n_cuid, n_requests, db, runVars, notPipe>>

(***************************************************************************)
(* Two builder invocations for different instance ids, interleaved         *)
(* statement by statement (xml_builder.py 167-181), next to the one piece  *)
(* of module-level state, the registry cache (dm_registry.py 14-77).       *)
(***************************************************************************)
Invocations == {1, 2}

InstanceIdOf(i) == <<"i-", "cuid">> \o IntStr(i)

ConcForms ==
    {f \in FormInputs :
        ("f4" \notin DOMAIN f) /\ (f["f3"] = PyBool(TRUE)) /\ (f["f2"] # PyInt(0))
            /\ ("f1" \in DOMAIN f => f["f1"] = PyStr(<<"a", "&">>))}

ConcMetaInputs == {<<>>, OverridesOf(<<"f2", "NASK">>, TRUE, TRUE)}

\* build_dm_registry: the models found in the installed apps
Registry == <<<<DM_CT_ID, "TestData3Instance">>>>

\* the cache before its first use and after invalidate_dm_registry
CacheNone == <<"None">>

\* get_dm_registry: the cache after the call
get_dm_registry == IF _registry_cache = CacheNone THEN Registry ELSE _registry_cache

ConcIdle ==
    /\ _registry_cache = <<"None">> /\ k_form = <<>> /\ k_meta = <<>> /\ k_xml = <<>>
    /\ k_out = <<>> /\ k_pc = <<>> /\ k_overlap = FALSE

ConcInit ==
    /\ _registry_cache \in {CacheNone, Registry}
    /\ k_form \in [Invocations -> ConcForms]
    /\ k_meta \in [Invocations -> ConcMetaInputs]
    /\ k_xml = [i \in Invocations |-> NoElem]
    /\ k_out = [i \in Invocations |-> NoElem]
    /\ k_pc = [i \in Invocations |-> "start"]
    /\ k_overlap = FALSE
    \* the builder's configuration, shared by both invocations
    /\ fm_ct_id_key \in BOOLEAN /\ b_layout = "indented"
    /\ b_cluster_ct_id = CLUSTER_CT_ID /\ b_entry = "form"
    /\ b_form = <<>> /\ b_meta = <<>> /\ b_context = <<>>
    /\ b_doc = NoElem /\ b_doc2 = NoElem /\ j_flat = <<>> /\ j_nested = <<>> /\ j_search = <<>> /\ b_pc = "idle"

\* an assignment to xml_content through one buffer that all invocations share
AssignShared(buf, i, doc) == [j \in DOMAIN buf |-> doc]

\* an assignment to the local variable xml_content of invocation i
AssignLocal(buf, i, doc) == [buf EXCEPT ![i] = doc]

UnderWay(i) == k_pc[i] \in {"metadata", "fields"}

Overlap(i) == k_overlap \/ \E j \in Invocations \ {i} : UnderWay(j)

\* lines 169-172: xml_content = self._skeleton_xml; the metadata placeholders
ReplaceMetadata(i) ==
    /\ k_pc[i] = "start"
    /\ k_xml' = AssignLocal(k_xml, i, _replace_metadata_placeholders(_skeleton_xml, InstanceIdOf(i)))
    /\ k_pc' = [k_pc EXCEPT ![i] = "metadata"]
    /\ k_overlap' = Overlap(i)
    /\ UNCHANGED <<_registry_cache, k_form, k_meta, k_out, notConc>>

\* line 175: the field placeholders
ReplaceFields(i) ==
    /\ k_pc[i] = "metadata"
    /\ k_xml' = AssignLocal(k_xml, i, _replace_field_placeholders(k_xml[i], k_form[i], k_meta[i]))
    /\ k_pc' = [k_pc EXCEPT ![i] = "fields"]
    /\ k_overlap' = Overlap(i)
    /\ UNCHANGED <<_registry_cache, k_form, k_meta, k_out, notConc>>

\* lines 179-181: the EV and pruning pass, and the return
ProcessEvAndPrune(i) ==
    /\ k_pc[i] = "fields"
    /\ k_out' = [k_out EXCEPT ![i] = _process_ev_and_prune(k_xml[i], k_meta[i])]
    /\ k_pc' = [k_pc EXCEPT ![i] = "done"]
    /\ k_overlap' = Overlap(i)
    /\ UNCHANGED <<_registry_cache, k_form, k_meta, k_xml, notConc>>

BuildStep(i) == ReplaceMetadata(i) \/ ReplaceFields(i) \/ ProcessEvAndPrune(i)

\* get_model_for_dm_ct_id in another request: the cache is filled on first use
GetDmRegistry ==
    /\ _registry_cache = CacheNone
    /\ _registry_cache' = get_dm_registry
    /\ UNCHANGED <<k_form, k_meta, k_xml, k_out, k_pc, k_overlap, notConc>>

InvalidateDmRegistry ==
    /\ _registry_cache # CacheNone
    /\ _registry_cache' = CacheNone
    /\ UNCHANGED <<k_form, k_meta, k_xml, k_out, k_pc, k_overlap, notConc>>

(***************************************************************************)
(* The upload API: APIKey (api/models.py 69-103), APIKeyAuthentication     *)
(* (api/authentication.py 16-39) and SchemaUploadView.post (api/views.py   *)
(* 125-187).  A key or a file name is a sequence of chunks.                *)
(***************************************************************************)
MaxKeys == 2
MaxApiRequests == 2

\* APIKey.generate_key: a token no earlier call returned
generate_key(n) == <<"sdc4_", "k">> \o IntStr(n)

\* APIKey.hash_key: the SHA-256 digest, different for different keys
hash_key(plaintext_key) == <<"sha256">> \o plaintext_key

\* APIKey.create_key: the table with the new row
create_key(rows) ==
    Append(rows, [key_hash |-> hash_key(generate_key(Len(rows) + 1)),
                  is_active |-> TRUE, request_count |-> 0])

\* the X-API-Key header: absent, empty, a key never issued, or an issued key
NoHeader == [set |-> FALSE, value |-> <<>>]
Headers ==
    {NoHeader, [set |-> TRUE, value |-> <<>>], [set |-> TRUE, value |-> <<"sdc4_", "invalid">>]}
        \cup {[set |-> TRUE, value |-> generate_key(n)] : n \in 1..MaxKeys}

\* authenticate with the check of is_active left out
AuthenticateAnyStoredKey(rows, header) ==
    IF ~header.set \/ header.value = <<>> THEN [outcome |-> "none", row |-> 0]
    ELSE LET key_hash == hash_key(header.value)
             hits == {i \in 1..Len(rows) : rows[i].key_hash = key_hash}
         IN IF hits = {} THEN [outcome |-> "failed", row |-> 0]
            ELSE [outcome |-> "user", row |-> CHOOSE i \in hits : TRUE]

\* APIKeyAuthentication.authenticate: None, AuthenticationFailed, or the key's user
authenticate(rows, header) ==
    IF ~header.set \/ header.value = <<>> THEN [outcome |-> "none", row |-> 0]
    ELSE LET key_hash == hash_key(header.value)
             hits == {i \in 1..Len(rows) : rows[i].key_hash = key_hash}
         IN IF hits = {} THEN [outcome |-> "failed", row |-> 0]
            ELSE LET key_obj == CHOOSE i \in hits : TRUE IN
                 IF ~rows[key_obj].is_active THEN [outcome |-> "failed", row |-> 0]
                 ELSE [outcome |-> "user", row |-> key_obj]

\* the file names of an upload
FileNames ==
    {<<"dm-", "a", ".", "xsd">>, <<"dm-", "a", ".", "XSD">>, <<"dm-", "b", ".", "owl">>,
     <<"a", ".", "xsd">>, <<"dm-", "a", ".", "b", ".", "html">>, <<"dm-", "a", ".", "txt">>,
     <<"dm-", "a">>}

Uploads ==
    {<<>>} \cup {<<n>> : n \in FileNames}
        \cup {<<<<"dm-", "a", ".", "xsd">>, m>> : m \in {<<"dm-", "a", ".", "xsd">>, <<"a", ".", "xsd">>}}

LowerChunk(c) == CASE c = "XSD" -> "xsd" [] OTHER -> c

\* Path(filename).suffix.lower(): from the last dot on, unless the name
\* starts or ends with it
SuffixLower(filename) ==
    LET dots == {i \in 1..Len(filename) : filename[i] = "."}
        i == IF dots = {} THEN 0 ELSE CHOOSE d \in dots : \A e \in dots : e <= d
    IN IF 1 < i /\ i < Len(filename)
       THEN [j \in 1..(Len(filename) - i + 1) |-> LowerChunk(filename[i + j - 1])]
       ELSE <<>>

ALLOWED_EXTENSIONS == {<<".", "xsd">>, <<".", "html">>, <<".", "owl">>}

\* filename.count('.')
CountDots(filename) == Cardinality({i \in 1..Len(filename) : filename[i] = "."})

\* default_storage.save: the path, or another one when the path is taken
StorageSave(storage, path) ==
    IF path \in Range(storage) THEN path \o <<"_">> \o IntStr(Len(storage)) ELSE path

\* the loop of SchemaUploadView.post from file i on
RECURSIVE SchemaLoop(_, _, _)
SchemaLoop(st, files, i) ==
    IF i > Len(files) THEN st
    ELSE LET filename == files[i]
             file_ext == SuffixLower(filename)
             saved_path == StorageSave(st.storage, <<"dmlib/">> \o filename)
         IN IF file_ext \notin ALLOWED_EXTENSIONS
            THEN SchemaLoop([st EXCEPT !.errors = Append(@, [filename |-> filename,
                                                              error |-> "extension"])],
                            files, i + 1)
            ELSE IF ~StartsWith(filename, <<"dm-">>) \/ CountDots(filename) # 1
            THEN SchemaLoop([st EXCEPT !.errors = Append(@, [filename |-> filename,
                                                              error |-> "pattern"])],
                            files, i + 1)
            ELSE SchemaLoop([st EXCEPT !.storage = Append(@, saved_path),
                                       !.stored_files = Append(@, [filename |-> filename,
                                                                   path |-> saved_path])],
                            files, i + 1)

NoResponse == [status |-> 0, success |-> FALSE, user |-> 0, stored_files |-> <<>>, errors |-> <<>>]

\* the view answering 400 when no file could be stored
SchemaUploadNeedsStoredFile(files, storage, user) ==
    LET st == SchemaLoop([storage |-> storage, stored_files |-> <<>>, errors |-> <<>>], files, 1)
    IN IF files = <<>> \/ st.stored_files = <<>>
       THEN [response |-> [NoResponse EXCEPT !.status = 400, !.user = user], storage |-> storage]
       ELSE [response |-> [status |-> 201, success |-> TRUE, user |-> user,
                           stored_files |-> st.stored_files, errors |-> st.errors],
             storage |-> st.storage]

\* SchemaUploadView.post for an authenticated request: [response, storage]
SchemaUploadView_post(files, storage, user) ==
    IF files = <<>>
    THEN [response |-> [NoResponse EXCEPT !.status = 400, !.user = user], storage |-> storage]
    ELSE LET st == SchemaLoop([storage |-> storage, stored_files |-> <<>>, errors |-> <<>>],
                              files, 1)
         IN [response |-> [status |-> 201, success |-> TRUE, user |-> user,
                           stored_files |-> st.stored_files, errors |-> st.errors],
             storage |-> st.storage]

ApiIdle ==
    /\ a_keys = <<>> /\ a_storage = <<>> /\ a_requests = 0
    /\ a_req = [key |-> NoHeader, files |-> <<>>] /\ a_resp = NoResponse

ApiInit == ApiIdle

\* APIKey.create_key, from the admin
CreateKey ==
    /\ Len(a_keys) < MaxKeys
    /\ a_keys' = create_key(a_keys)
    /\ UNCHANGED <<a_storage, a_requests, a_req, a_resp, notApi>>

\* is_active switched off on a stored key, and on again
Deactivate(i) ==
    /\ i \in 1..Len(a_keys) /\ a_keys[i].is_active
    /\ a_keys' = [a_keys EXCEPT ![i].is_active = FALSE]
    /\ UNCHANGED <<a_storage, a_requests, a_req, a_resp, notApi>>

Reactivate(i) ==
    /\ i \in 1..Len(a_keys) /\ ~a_keys[i].is_active
    /\ a_keys' = [a_keys EXCEPT ![i].is_active = TRUE]
    /\ UNCHANGED <<a_storage, a_requests, a_req, a_resp, notApi>>

\* POST /api/v1/upload/schema/: authentication, then the view.  A request
\* that authenticate() answers with None is refused with 401 before the view
\* runs, as APIKeyAuthenticationTest.test_unauthenticated_request expects.
SchemaUpload(header, files) ==
    /\ a_requests < MaxApiRequests
    /\ a_requests' = a_requests + 1
    /\ a_req' = [key |-> header, files |-> files]
    /\ LET auth == authenticate(a_keys, header) IN
          IF auth.outcome # "user"
          THEN /\ a_resp' = [NoResponse EXCEPT !.status = 401]
               /\ UNCHANGED <<a_keys, a_storage>>
          ELSE LET r == SchemaUploadView_post(files, a_storage, auth.row) IN
               /\ a_keys' = [a_keys EXCEPT ![auth.row].request_count = @ + 1]
               /\ a_resp' = r.response
               /\ a_storage' = r.storage
    /\ UNCHANGED notApi

(***************************************************************************)
(* The post_save receiver and the Celery task of the statepopulation app.  *)
(* One instance row is followed; t_status is its rdf_sync_status column.   *)
(***************************************************************************)
MaxSaves == 2
MaxCleanups == 1

\* @shared_task(max_retries=3)
max_retries == 3

SavedStatuses == {"pending", "synced", "failed", "disabled"}
Outcomes == {"empty_rdf", "triplestore_disabled", "success", "upload_failed", "exception"}

Message(retries, by) == [retries |-> retries, by |-> by]

\* extract_and_upload_rdf.delay(pk) from the receiver
TriggerOnEverySave(queue, status) == Append(queue, Message(0, "signal"))

trigger_rdf_extraction(queue, status) ==
    IF status = "pending" THEN Append(queue, Message(0, "signal")) ELSE queue

\* instance.save(...): the row is written, then post_save runs the receiver
InstanceSave(st, status) ==
    [st EXCEPT !.status = status,
               !.saved = Append(@, status),
               !.queue = trigger_rdf_extraction(@, status)]

\* self.retry(exc=e): the message is sent again until max_retries is reached
Retry(st, msg) ==
    IF msg.retries < max_retries
    THEN [st EXCEPT !.queue = Append(@, Message(msg.retries + 1, "retry")), !.result = "retry"]
    ELSE [st EXCEPT !.result = "raised"]

extract_and_upload_rdf(status, queue, msg, outcome) ==
    LET st == [status |-> status, queue |-> queue, saved |-> <<>>, result |-> "none"] IN
    IF status = "absent" THEN [st EXCEPT !.result = "instance_not_found"]
    ELSE IF outcome = "empty_rdf"
         THEN [InstanceSave(st, "failed") EXCEPT !.result = "empty_rdf"]
    ELSE IF outcome = "triplestore_disabled"
         THEN [InstanceSave(st, "disabled") EXCEPT !.result = "triplestore_disabled"]
    ELSE IF outcome = "success"
         THEN [InstanceSave(st, "synced") EXCEPT !.result = "success"]
    ELSE IF outcome = "upload_failed"
         THEN [InstanceSave(st, "failed") EXCEPT !.result = "upload_failed"]
    ELSE Retry(InstanceSave(st, "failed"), msg)

RemoveAt(queue, i) == SubSeq(queue, 1, i - 1) \o SubSeq(queue, i + 1, Len(queue))

NoStep == [by |-> "none", saved |-> <<>>, result |-> "none"]

TaskIdle ==
    /\ t_status = "absent" /\ t_queue = <<>> /\ t_last = NoStep
    /\ t_saves = 0 /\ t_cleanups = 0

TaskInit == TaskIdle

\* a view or the admin saves the instance
AppSave(status) ==
    /\ t_saves < MaxSaves
    /\ t_saves' = t_saves + 1
    /\ LET st == InstanceSave([status |-> t_status, queue |-> t_queue,
                               saved |-> <<>>, result |-> "none"], status) IN
          /\ t_status' = st.status
          /\ t_queue' = st.queue
          /\ t_last' = [by |-> "app", saved |-> st.saved, result |-> "saved"]
    /\ UNCHANGED <<t_cleanups, notTask>>

AppDelete ==
    /\ t_saves < MaxSaves /\ t_status # "absent"
    /\ t_saves' = t_saves + 1
    /\ t_status' = "absent"
    /\ t_last' = [by |-> "app", saved |-> <<>>, result |-> "deleted"]
    /\ UNCHANGED <<t_queue, t_cleanups, notTask>>

\* a worker takes one message and runs the task on it
RunTask(i, outcome) ==
    /\ i \in DOMAIN t_queue
    /\ LET st == extract_and_upload_rdf(t_status, RemoveAt(t_queue, i), t_queue[i], outcome) IN
          /\ t_status' = st.status
          /\ t_queue' = st.queue
          /\ t_last' = [by |-> "task", saved |-> st.saved, result |-> st.result]
    /\ UNCHANGED <<t_saves, t_cleanups, notTask>>

CleanupFailedRdfSyncs ==
    /\ t_cleanups < MaxCleanups
    /\ t_cleanups' = t_cleanups + 1
    /\ t_queue' = IF t_status = "failed" THEN Append(t_queue, Message(0, "cleanup")) ELSE t_queue
    /\ t_last' = [by |-> "cleanup", saved |-> <<>>, result |-> "queued"]
    /\ UNCHANGED <<t_status, t_saves, notTask>>

(***************************************************************************)
(* RDFExtractor on the document the builder returned: the lines of each    *)
(* reifier block that carry text of the document (rdf_extractor.py         *)
(* 297-378, 398-411).                                                      *)
(***************************************************************************)
Line(prop, text) == [prop |-> prop, text |-> text]

_find_units_element(elem, field_type) ==
    IF field_type \in {"XdCount", "XdQuantity", "XdFloat", "XdDouble", "XdOrdinal"}
    THEN FindIn(elem, UnitsElementName(field_type))
    ELSE NoElem

\* `x_elem is not None and x_elem.text and not x_elem.text.startswith('__PLACEHOLDER__')`
Emits(e) == HasText(e) /\ ~StartsWith(e.text, <<PLACEHOLDER_PREFIX>>)

\* the optional context properties, in the order they are appended
_context_lines(elem, field_type) ==
    LET units_elem == _find_units_element(elem, field_type)
        units_value_elem == IF units_elem # NoElem THEN FindIn(units_elem, "xdstring-value")
                            ELSE NoElem
        units == IF HasText(units_value_elem)
                 THEN <<Line("units", _escape_turtle(units_value_elem.text))>> ELSE <<>>
        stamp(name) == IF Emits(FindIn(elem, name))
                       THEN <<Line(name, FindIn(elem, name).text)>> ELSE <<>>
        lat_elem == FindIn(elem, "latitude")
        lon_elem == FindIn(elem, "longitude")
        location == IF Emits(lat_elem) /\ Emits(lon_elem)
                    THEN <<Line("latitude", lat_elem.text), Line("longitude", lon_elem.text)>>
                    ELSE <<>>
        act_elem == FindIn(elem, "act")
        act == IF Emits(act_elem) THEN <<Line("act", _escape_turtle(act_elem.text))>> ELSE <<>>
    IN units \o stamp("vtb") \o stamp("vte") \o stamp("tr") \o stamp("modified")
             \o location \o act

\* the block of one component: its ct_id and its lines, the first one first
ReifierBlock(elem, ct_id) ==
    LET term == _extract_component_triple_term(elem, ct_id) IN
    IF term = NoBlock THEN [ct_id |-> "", lines |-> <<>>]
    ELSE [ct_id |-> ct_id,
          lines |-> <<Line(term.head, term.literal)>>
                    \o (IF term.ev # "" THEN <<Line("ev", <<term.ev>>)>> ELSE <<>>)
                    \o _context_lines(elem, MetaOf(ct_id).type)]

\* extract(): ET.fromstring, then one block per known component, in the
\* order of tree.iter()
RDFExtractor_blocks(xml_content) ==
    LET tree == ET_fromstring(xml_content)
        paths == Iter(tree)
        block(p) == LET elem == At(tree, p) IN
                    IF elem.name = "ms-" /\ elem.id \in FieldKeys
                    THEN ReifierBlock(elem, elem.id)
                    ELSE [ct_id |-> "", lines |-> <<>>]
    IN SelectSeq([i \in 1..Len(paths) |-> block(paths[i])], LAMBDA b : b.ct_id # "")

TurtleIdle == g_rdf = <<>> /\ g_pc = "idle"

\* the builder's inputs, with the skeleton file in place
TurtleInit ==
    /\ fm_ct_id_key \in BOOLEAN
    /\ b_layout \in {"indented", "compact"}
    /\ b_entry \in {"form", "wizard"}
    /\ b_cluster_ct_id = IF b_entry = "wizard" THEN "" ELSE CLUSTER_CT_ID
    /\ b_form \in FormInputs
    /\ b_meta \in MetaInputs
    /\ b_context \in IF b_entry = "wizard" THEN ContextInputs ELSE {<<>>}
    /\ b_doc = NoElem /\ b_doc2 = NoElem /\ j_flat = <<>> /\ j_nested = <<>> /\ j_search = <<>>
    /\ b_pc = "input"
    /\ TurtleIdle

\* the built document handed to the RDF extractor
ExtractTurtle ==
    /\ b_pc = "built" /\ g_pc = "idle"
    /\ g_rdf' = RDFExtractor_blocks(b_doc)
    /\ g_pc' = "emitted"
    /\ UNCHANGED notTurtle

(***************************************************************************)
(* AppInstaller.install (sdc4/utils/app_installer.py 79-165) with the      *)
(* steps that change the project and register rollback actions (323-460)   *)
(* and _rollback (737-748).  A step that can raise raises or not.          *)
(***************************************************************************)
DmlibFiles == <<"dm-a.xsd", "dm-a.html">>

NoFile == ""

RollbackAction(kind, file) == [kind |-> kind, file |-> file]

\* for action in reversed(self.rollback_actions)
RollbackInOrder(actions) == actions

RollbackOrder(actions) == [i \in 1..Len(actions) |-> actions[Len(actions) + 1 - i]]

\* what one rollback action does to the project when it does not raise
RunAction(project, action) ==
    CASE action.kind = "rmtree app" -> [project EXCEPT !.app = "absent"]
      [] action.kind = "unlink" -> [project EXCEPT !.dmlib[action.file] = "absent"]
      [] action.kind = "restore" ->
            IF action.file \in project.backups
            THEN [project EXCEPT !.dmlib[action.file] = "old", !.backups = @ \ {action.file}]
            ELSE project
      [] action.kind = "restore settings" ->
            IF "settings.py" \in project.backups
            THEN [project EXCEPT !.settings = "old", !.backups = @ \ {"settings.py"}]
            ELSE project
      [] OTHER ->
            IF "urls.py" \in project.backups
            THEN [project EXCEPT !.urls = "old", !.backups = @ \ {"urls.py"}]
            ELSE project

\* _rollback: every action is called; one that raises changes nothing
RECURSIVE RunAll(_, _, _)
RunAll(project, actions, raising) ==
    IF actions = <<>> THEN project
    ELSE RunAll(IF Head(actions) \in raising THEN project ELSE RunAction(project, Head(actions)),
                Tail(actions), raising)

NoResult == [returned |-> FALSE, success |-> FALSE, errors |-> "", warnings |-> FALSE]

InstallIdle ==
    /\ i_zip = "idle" /\ i_src = <<>> /\ i_listed = FALSE
    /\ i_project0 = <<>> /\ i_project = <<>> /\ i_temp_dir = "None"
    /\ i_rollback_actions = <<>> /\ i_registered = <<>> /\ i_ran = <<>>
    /\ i_result = NoResult /\ i_pc = "idle"

\* the ZIP file, the dm-* files it holds, and the project before the call
InstallInit ==
    /\ i_zip \in {"not found", "not a zip", "bad structure", "ok"}
    /\ i_src \in {<<>>, <<DmlibFiles[1]>>, DmlibFiles}
    /\ i_listed \in BOOLEAN
    /\ i_project0 \in {[app |-> app, dmlib |-> [f \in Range(DmlibFiles) |->
                                                  IF f = DmlibFiles[1] THEN first ELSE "absent"],
                        settings |-> "old", urls |-> "old", backups |-> {}] :
                          app \in {"absent", "old"}, first \in {"absent", "old"}}
    /\ i_project = i_project0
    /\ i_temp_dir = "None"
    /\ i_rollback_actions = <<>> /\ i_registered = <<>> /\ i_ran = <<>>
    /\ i_result = NoResult /\ i_pc = "start"

\* `return result` through the finally clause: the temporary directory goes
Return(errors) ==
    /\ i_result' = [i_result EXCEPT !.returned = TRUE, !.errors = errors]
    /\ i_temp_dir' = IF i_temp_dir = "exists" THEN "removed" ELSE i_temp_dir
    /\ i_pc' = "returned"

\* the except clause and the finally clause, after a step left the project
\* as given and registered the given actions
Raise(project, registered, raising) ==
    LET actions == i_rollback_actions \o registered IN
    /\ i_registered' = i_registered \o registered
    /\ i_ran' = IF actions # <<>> THEN RollbackOrder(actions) ELSE <<>>
    /\ i_project' = IF actions # <<>> THEN RunAll(project, RollbackOrder(actions), raising)
                    ELSE project
    /\ i_rollback_actions' = <<>>
    /\ Return("Installation failed")

\* a step that went through
Proceed(pc, project, registered) ==
    /\ i_project' = project
    /\ i_rollback_actions' = i_rollback_actions \o registered
    /\ i_registered' = i_registered \o registered
    /\ i_pc' = pc
    /\ UNCHANGED <<i_ran, i_result, i_temp_dir>>

RaisingSets == SUBSET {RollbackAction("rmtree app", NoFile), RollbackAction("restore settings", NoFile)}

ValidateZip ==
    /\ i_pc = "start"
    /\ IF i_zip # "ok"
       THEN Return(i_zip) /\ UNCHANGED <<i_project, i_rollback_actions, i_registered, i_ran>>
       ELSE Proceed("validated", i_project, <<>>)
    /\ UNCHANGED <<i_zip, i_src, i_listed, i_project0, notInstall>>

\* _extract_zip: temp_dir is assigned only when extractall went through
ExtractZip(raises) ==
    /\ i_pc = "validated"
    /\ IF raises
       THEN Raise(i_project, <<>>, {})
       ELSE /\ i_temp_dir' = "exists"
            /\ i_pc' = "extracted"
            /\ UNCHANGED <<i_project, i_rollback_actions, i_registered, i_ran, i_result>>
    /\ UNCHANGED <<i_zip, i_src, i_listed, i_project0, notInstall>>

DetectAppName(raises) ==
    /\ i_pc = "extracted"
    /\ IF raises THEN Raise(i_project, <<>>, {}) ELSE Proceed("detected", i_project, <<>>)
    /\ UNCHANGED <<i_zip, i_src, i_listed, i_project0, notInstall>>

CheckConflicts ==
    /\ i_pc = "detected"
    /\ IF i_project.app # "absent" \/ i_listed
       THEN Return("conflict") /\ UNCHANGED <<i_project, i_rollback_actions, i_registered, i_ran>>
       ELSE Proceed("checked", i_project, <<>>)
    /\ UNCHANGED <<i_zip, i_src, i_listed, i_project0, notInstall>>

\* copytree, then the rollback action; a failed copytree registers nothing
CopyAppDirectory(raises, partly, raising) ==
    /\ i_pc = "checked"
    /\ IF raises
       THEN Raise([i_project EXCEPT !.app = IF partly THEN "partial" ELSE "absent"], <<>>, raising)
       ELSE Proceed("app copied", [i_project EXCEPT !.app = "copied"],
                    <<RollbackAction("rmtree app", NoFile)>>)
    /\ UNCHANGED <<i_zip, i_src, i_listed, i_project0, notInstall>>

\* the loop of _copy_dmlib_files over the first n files: for each one the
\* backup and the rollback action, then the copy
RECURSIVE CopyFiles(_, _)
CopyFiles(st, n) ==
    IF n = 0 THEN st
    ELSE LET prev == CopyFiles(st, n - 1)
             f == i_src[n]
             exists == prev.project.dmlib[f] # "absent"
         IN [project |-> [prev.project EXCEPT !.dmlib[f] = "new",
                                              !.backups = IF exists THEN @ \cup {f} ELSE @],
             registered |-> Append(prev.registered,
                                   RollbackAction(IF exists THEN "restore" ELSE "unlink", f))]

\* copied files: n; the copy of file n + 1 raises after its action was
\* registered (midway), or the loop ends and nothing was copied
CopyDmlibFiles(n, midway, raising) ==
    /\ i_pc = "app copied"
    /\ n \in 0..Len(i_src)
    /\ LET done == CopyFiles([project |-> i_project, registered |-> <<>>], n)
           next == CopyFiles([project |-> i_project, registered |-> <<>>], n + 1)
       IN IF n < Len(i_src)
          THEN Raise(done.project,
                     IF midway THEN next.registered ELSE done.registered, raising)
          ELSE IF n = 0 THEN Raise(i_project, <<>>, raising)
          ELSE Proceed("dmlib copied", done.project, done.registered)
    /\ UNCHANGED <<i_zip, i_src, i_listed, i_project0, notInstall>>

\* the backup and the rollback action come first; the write may raise
UpdateSettings(raises, raising) ==
    /\ i_pc = "dmlib copied"
    /\ LET backed == [i_project EXCEPT !.backups = @ \cup {"settings.py"}]
           action == <<RollbackAction("restore settings", NoFile)>>
       IN IF raises THEN Raise(backed, action, raising)
          ELSE Proceed("settings updated", [backed EXCEPT !.settings = "new"], action)
    /\ UNCHANGED <<i_zip, i_src, i_listed, i_project0, notInstall>>

UpdateUrls(raises, raising) ==
    /\ i_pc = "settings updated"
    /\ LET backed == [i_project EXCEPT !.backups = @ \cup {"urls.py"}]
           action == <<RollbackAction("restore urls", NoFile)>>
       IN IF raises THEN Raise(backed, action, raising)
          ELSE Proceed("urls updated", [backed EXCEPT !.urls = "new"], action)
    /\ UNCHANGED <<i_zip, i_src, i_listed, i_project0, notInstall>>

RunMigrations(raises, raising) ==
    /\ i_pc = "urls updated"
    /\ IF raises THEN Raise(i_project, <<>>, raising)
       ELSE Proceed("migrated", i_project, <<>>)
    /\ UNCHANGED <<i_zip, i_src, i_listed, i_project0, notInstall>>

\* the triplestore upload and the verification add warnings and errors only
UploadAndVerify(warnings, errors) ==
    /\ i_pc = "migrated"
    /\ i_result' = [returned |-> TRUE, success |-> TRUE,
                    errors |-> IF errors THEN "verification" ELSE "",
                    warnings |-> warnings \/ errors]
    /\ i_temp_dir' = "removed"
    /\ i_pc' = "returned"
    /\ UNCHANGED <<i_project, i_rollback_actions, i_registered, i_ran>>
    /\ UNCHANGED <<i_zip, i_src, i_listed, i_project0, notInstall>>

(***************************************************************************)
(* XMLValidationView.post (api/views.py 320-511): the request is refused,  *)
(* or the posted document is validated and stored as a GenericInstance.    *)
(***************************************************************************)
PostOutcomes ==
    {"XML_REQUIRED", "INVALID_XML", "SCHEMA_NOT_FOUND", "VALIDATION_FAILED", "valid", "invalid"}

\* instance_id = f'i-ev-{cuid2.cuid2()}' or f'i-{cuid2.cuid2()}'
ApiInstanceId(validation_status, k) ==
    IF validation_status = "valid_with_ev" THEN <<"i-", "ev-", "c">> \o IntStr(k)
    ELSE NewId(k)

\* the rows of the GenericInstance table after the request
XMLValidationView_post(rows, outcome, app_specific, k) ==
    IF outcome \notin {"valid", "invalid"} \/ app_specific THEN rows
    ELSE LET validation_status == IF outcome = "valid" THEN "valid" ELSE "valid_with_ev"
         IN Append(rows, [instance_id |-> ApiInstanceId(validation_status, k),
                          validation_status |-> validation_status,
                          rdf_sync_status |-> "pending"])

\* GenericInstance.has_exceptional_values
has_exceptional_values(row) == row.validation_status = "valid_with_ev"

GenericIdle == generic_db = <<>>

ApiPost ==
    /\ Request
    /\ \E outcome \in PostOutcomes, app_specific \in BOOLEAN :
          /\ generic_db' = XMLValidationView_post(generic_db, outcome, app_specific, n_cuid + 1)
          /\ n_cuid' = IF outcome \in {"valid", "invalid"} THEN n_cuid + 1 ELSE n_cuid
    /\ UNCHANGED <<w_visible, w_completed, w_instance_id, w_builds, w_get, db, p_pc, p_result,
                   runVars>>
    /\ UNCHANGED <<chooseVars, correctVars, buildVars, rdfVars, concVars, apiVars, taskVars,
                   turtleVars, installVars>>

(***************************************************************************)
(* Specifications.                                                         *)
(***************************************************************************)
InitChoose == ChooseInit /\ CorrectIdle /\ BuildIdle /\ RdfIdle /\ PipeIdle /\ ConcIdle /\ ApiIdle /\ TaskIdle /\ TurtleIdle /\ InstallIdle /\ GenericIdle
NextChoose == ChooseEv
SpecChoose == InitChoose /\ [][NextChoose]_vars

InitCorrect == CorrectInit /\ ChooseIdle /\ BuildIdle /\ RdfIdle /\ PipeIdle /\ ConcIdle /\ ApiIdle /\ TaskIdle /\ TurtleIdle /\ InstallIdle /\ GenericIdle
NextCorrect == AutoCorrect \/ AutoCorrectAgain \/ ExtractRdf
SpecCorrect == InitCorrect /\ [][NextCorrect]_vars

InitBuild == BuildInit /\ ChooseIdle /\ CorrectIdle /\ RdfIdle /\ PipeIdle /\ ConcIdle /\ ApiIdle /\ TaskIdle /\ TurtleIdle /\ InstallIdle /\ GenericIdle
NextBuild == BuildFromForm \/ BuildFromWizard \/ PruneAgain \/ ExtractJson
SpecBuild == InitBuild /\ [][NextBuild]_vars

InitSkip == SkipInit /\ ChooseIdle /\ CorrectIdle /\ RdfIdle /\ PipeIdle /\ ConcIdle /\ ApiIdle /\ TaskIdle /\ TurtleIdle /\ InstallIdle /\ GenericIdle
NextSkip == BuildFromForm \/ BuildFromWizard
SpecSkip == InitSkip /\ [][NextSkip]_vars

InitConc == ConcInit /\ ChooseIdle /\ CorrectIdle /\ RdfIdle /\ PipeIdle /\ ApiIdle /\ TaskIdle /\ TurtleIdle /\ InstallIdle /\ GenericIdle
NextConc ==
    \/ \E i \in Invocations : ReplaceMetadata(i)
    \/ \E i \in Invocations : ReplaceFields(i)
    \/ \E i \in Invocations : ProcessEvAndPrune(i)
    \/ GetDmRegistry
    \/ InvalidateDmRegistry
SpecConc == InitConc /\ [][NextConc]_vars

InitApi == ApiInit /\ ChooseIdle /\ CorrectIdle /\ BuildIdle /\ RdfIdle /\ PipeIdle /\ ConcIdle /\ TaskIdle /\ TurtleIdle /\ InstallIdle /\ GenericIdle
NextApi ==
    \/ CreateKey
    \/ \E i \in 1..MaxKeys : Deactivate(i)
    \/ \E i \in 1..MaxKeys : Reactivate(i)
    \/ \E header \in Headers, files \in Uploads : SchemaUpload(header, files)
SpecApi == InitApi /\ [][NextApi]_vars

InitRdf == RdfInit /\ ChooseIdle /\ CorrectIdle /\ BuildIdle /\ PipeIdle /\ ConcIdle /\ ApiIdle /\ TaskIdle /\ TurtleIdle /\ InstallIdle /\ GenericIdle
NextRdf == ExtractTripleTerm
SpecRdf == InitRdf /\ [][NextRdf]_vars

InitPipe == PipeInit /\ ChooseIdle /\ CorrectIdle /\ BuildIdle /\ RdfIdle /\ ConcIdle /\ ApiIdle /\ TaskIdle /\ TurtleIdle /\ InstallIdle /\ GenericIdle
NextPipe ==
    \/ WizardStart \/ StepGet \/ StepPost \/ CompleteBuild \/ BulkRead
    \/ Validate \/ Correct \/ Accept \/ Save \/ Upload \/ Finish \/ ApiPost
SpecPipe == InitPipe /\ [][NextPipe]_vars

InitInstall == InstallInit /\ ChooseIdle /\ CorrectIdle /\ BuildIdle /\ RdfIdle /\ PipeIdle /\ ConcIdle /\ ApiIdle /\ TaskIdle /\ TurtleIdle /\ GenericIdle
NextInstall ==
    \/ ValidateZip
    \/ \E raises \in BOOLEAN : ExtractZip(raises)
    \/ \E raises \in BOOLEAN : DetectAppName(raises)
    \/ CheckConflicts
    \/ \E raises \in BOOLEAN, partly \in BOOLEAN, raising \in RaisingSets :
          CopyAppDirectory(raises, partly, raising)
    \/ \E n \in 0..Len(DmlibFiles), midway \in BOOLEAN, raising \in RaisingSets :
          CopyDmlibFiles(n, midway, raising)
    \/ \E raises \in BOOLEAN, raising \in RaisingSets : UpdateSettings(raises, raising)
    \/ \E raises \in BOOLEAN, raising \in RaisingSets : UpdateUrls(raises, raising)
    \/ \E raises \in BOOLEAN, raising \in RaisingSets : RunMigrations(raises, raising)
    \/ \E warnings \in BOOLEAN, errors \in BOOLEAN : UploadAndVerify(warnings, errors)
SpecInstall == InitInstall /\ [][NextInstall]_vars

InitTurtle == TurtleInit /\ ChooseIdle /\ CorrectIdle /\ RdfIdle /\ PipeIdle /\ ConcIdle /\ ApiIdle /\ TaskIdle /\ InstallIdle /\ GenericIdle
NextTurtle == BuildFromForm \/ BuildFromWizard \/ ExtractTurtle
SpecTurtle == InitTurtle /\ [][NextTurtle]_vars

InitTask == TaskInit /\ ChooseIdle /\ CorrectIdle /\ BuildIdle /\ RdfIdle /\ PipeIdle /\ ConcIdle /\ ApiIdle /\ TurtleIdle /\ InstallIdle /\ GenericIdle
NextTask ==
    \/ \E status \in SavedStatuses : AppSave(status)
    \/ AppDelete
    \/ \E i \in 1..(MaxSaves + MaxCleanups), outcome \in Outcomes : RunTask(i, outcome)
    \/ CleanupFailedRdfSyncs
\* the Celery worker runs every message that stays in the queue
SpecTask ==
    /\ InitTask /\ [][NextTask]_vars
    /\ WF_vars(\E i \in 1..(MaxSaves + MaxCleanups), outcome \in Outcomes : RunTask(i, outcome))

(***************************************************************************)
(* C10.  The corrector's heuristic is an ordered, first-match-wins scan.   *)
(***************************************************************************)
EvGroups ==
    << {<<"required">>, <<"missing">>, <<"mandatory">>},
       {<<"type">>, <<"format">>, <<"pattern">>},
       {<<"range">>, <<"constraint">>, <<"bounds">>, <<"limit">>},
       {<<"refused">>, <<"declined">>},
       {<<"not", "applicable">>, <<"n/a">>} >>

EvOfGroup == <<"NotPerformed", "NoInformation", "Unknown", "Refused", "NotApplicable">>

GroupMatches(k, msg) == \E p \in EvGroups[k] : Occurs(p, LowerMsg(msg))

\* C10: the EV chosen for a message is that of the earliest keyword group of
\* which some keyword occurs in the lower-cased message (required/missing/
\* mandatory, then type/format/pattern, then range/constraint/bounds/limit,
\* then refused/declined, then "not applicable"/"n/a"); a message matching
\* no group gets NoInformation.
C10_FirstMatchWins ==
    ev_pc = "chosen" =>
        /\ \A k \in 1..5 :
              (GroupMatches(k, error_msg) /\ \A j \in 1..(k - 1) : ~GroupMatches(j, error_msg))
                  => ev_value = EvOfGroup[k]
        /\ (\A k \in 1..5 : ~GroupMatches(k, error_msg)) => ev_value = "NoInformation"

\* a message matching the first, the second and the fifth group was decided by the first
C10_Witness ==
    /\ ev_pc = "chosen"
    /\ GroupMatches(1, error_msg)
    /\ GroupMatches(2, error_msg)
    /\ GroupMatches(5, error_msg)
    /\ ev_value = "NotPerformed"
(***************************************************************************)
(* C1.  The corrector's mutual-exclusion invariant.                        *)
(***************************************************************************)
TypedValueNames == {"xdcount-value", "xdstring-value", "xdtemporal-date"}

CorrectedCts == {c_errors[i][1] : i \in 1..Len(c_errors)}

\* C1: after auto_correct_with_evs(xml, errors), every component named in
\* errors that is found in the document no longer contains its typed value
\* element and has exactly one exceptional-value child, whatever it held
\* before, also when the document is corrected twice.
C1_NoValueOneEv ==
    c_pc \in {"corrected", "twice"} =>
        \A ct \in CorrectedCts :
            LET p == _find_element_by_ct_id(c_xml, ct) IN
            p # NoPath =>
                /\ \A q \in Range(Iter(At(c_out, p))) :
                       At(c_out, p \o q).name \notin TypedValueNames
                /\ Cardinality(KidsNamed(At(c_out, p), "exceptional-value")) = 1
(***************************************************************************)
(* C2, C3, C7, C8.  The built document.                                    *)
(***************************************************************************)
\* the ms-<ct_id> element of a document
ComponentOf(doc, ct) ==
    LET paths == Iter(doc)
        hits == {i \in 1..Len(paths) : At(doc, paths[i]).name = "ms-" /\ At(doc, paths[i]).id = ct}
    IN IF hits = {} THEN NoElem ELSE At(doc, paths[CHOOSE i \in hits : \A j \in hits : i <= j])

\* the names of the elements below an element
NamesBelow(e) == {At(e, p).name : p \in Range(Iter(e)) \ {<<>>}}

\* the field was given a value that is neither None nor the empty string
Supplied(ct) ==
    /\ ct \in DOMAIN b_form
    /\ b_form[ct].t # "none"
    /\ ~PyEq(b_form[ct], PyStr(<<>>))

\* the component holds its value element, with a text free of placeholders
ValuePopulated(doc, ct) ==
    LET comp == ComponentOf(doc, ct) IN
    \E i \in 1..Len(comp.kids) :
        /\ comp.kids[i].name = _get_value_element_name(MetaOf(ct).type)
        /\ comp.kids[i].text # <<>>
        /\ ~HasPlaceholder(comp.kids[i].text)

\* the component holds an element named after the EV code, with an ev-name child
EvPresent(doc, ct, ev_code) ==
    LET comp == ComponentOf(doc, ct) IN
    \E i \in 1..Len(comp.kids) :
        /\ comp.kids[i].name = ev_code
        /\ \E j \in 1..Len(comp.kids[i].kids) : comp.kids[i].kids[j].name = "ev-name"

Built == b_pc \in {"built", "repruned", "extracted"}

\* C2: a field given both a non-empty value and one of the 16 EV codes has,
\* in the document returned by build_from_form or build_from_wizard, both
\* its populated value element and the element named after the EV code with
\* an ev-name child.
C2_ValueAndEvCoexist ==
    Built =>
        \A ct \in FieldKeys :
            (Supplied(ct) /\ ct \in DOMAIN b_meta /\ b_meta[ct].ev \in DOMAIN EV_CODES)
                => ValuePopulated(b_doc, ct) /\ EvPresent(b_doc, ct, b_meta[ct].ev)

\* every field of the table was supplied and no placeholder is left inside
\* the cluster of the built document
ComponentsComplete ==
    /\ \A ct \in FieldKeys : Supplied(ct)
    /\ \A p \in Range(Iter(ComponentOf(b_doc, CLUSTER_CT_ID))) :
           ~HasPlaceholder(At(ComponentOf(b_doc, CLUSTER_CT_ID), p).text)

\* C3: for a built instance, JSONExtractor.extract and
\* JSONInstanceGenerator.generate both report every supplied field value,
\* decoded back to a value equal to the one supplied.
C3_RoundTrip ==
    (b_pc = "extracted" /\ ComponentsComplete) =>
        \A ct \in FieldKeys :
            /\ ct \in DOMAIN j_flat
            /\ j_flat[ct].has_value
            /\ PyEq(j_flat[ct].value, b_form[ct])
            /\ MetaOf(ct).label \in DOMAIN j_nested
            /\ PyEq(j_nested[MetaOf(ct).label].value, b_form[ct])

\* C7: the pruning pass applied to a document it produced returns that
\* document, character for character, also when value or units elements
\* still hold a placeholder.
C7_PruneIdempotent == b_pc = "repruned" => b_doc2 = b_doc

\* C8: a quantified field given a value and no overrides has its populated
\* value element in its ms-<ct_id> component, which holds no units, vtb or
\* latitude element.
C8_OnlyValueRemains ==
    Built =>
        \A ct \in FieldKeys :
            (MetaOf(ct).type \in quantified_types /\ Supplied(ct) /\ ct \notin DOMAIN b_meta)
                => /\ ValuePopulated(b_doc, ct)
                   /\ NamesBelow(ComponentOf(b_doc, ct)) \cap (UNITS_ELEMENTS \cup {"vtb", "latitude"}) = {}

(***************************************************************************)
(* C9.  The literal of the quoted triple.                                  *)
(***************************************************************************)
UnquotedKinds == {"XdBoolean", "XdCount", "XdOrdinal", "XdQuantity", "XdFloat", "XdDouble"}

\* the literal starts and ends with a double quote
Wrapped(lit) == Len(lit) >= 2 /\ lit[1] = QUOTE /\ lit[Len(lit)] = QUOTE

\* reading a quoted string's body: every backslash starts one of the five
\* escapes, and no quote, CR, LF or tab stands on its own
RECURSIVE Unescape(_)
Unescape(body) ==
    IF body = <<>> THEN [ok |-> TRUE, text |-> <<>>]
    ELSE IF Head(body) = BACKSLASH
         THEN IF Len(body) >= 2 /\ body[2] \in {BACKSLASH, QUOTE, "n", "r", "t"}
              THEN LET rest == Unescape(SubSeq(body, 3, Len(body)))
                       c == CASE body[2] = "n" -> "\n" [] body[2] = "r" -> "\r"
                              [] body[2] = "t" -> "\t" [] OTHER -> body[2]
                   IN [ok |-> rest.ok, text |-> <<c>> \o rest.text]
              ELSE [ok |-> FALSE, text |-> <<>>]
         ELSE IF Head(body) \in {QUOTE, "\n", "\r", "\t"} THEN [ok |-> FALSE, text |-> <<>>]
         ELSE LET rest == Unescape(Tail(body))
              IN [ok |-> rest.ok, text |-> <<Head(body)>> \o rest.text]

\* C9: for a field of kind XdBoolean, XdCount, XdOrdinal, XdQuantity, XdFloat
\* or XdDouble the literal of the quoted triple is not wrapped in double
\* quotes; for every other kind it is wrapped in double quotes and its body
\* is the value with every backslash, quote, CR, LF and tab escaped.
C9_LiteralTyping ==
    r_pc = "emitted" =>
        IF r_type \in UnquotedKinds
        THEN ~Wrapped(r_literal)
        ELSE /\ Wrapped(r_literal)
             /\ LET u == Unescape(SubSeq(r_literal, 2, Len(r_literal) - 1))
                IN u.ok /\ u.text = r_value

(***************************************************************************)
(* C4, C5, C6.  The wizard and the persistence pipelines.                  *)
(***************************************************************************)
\* the run of the pipeline is over
RunOver == p_pc = "idle" /\ p_result # "none"

\* C4: in both pipelines the validator is called once per document; a
\* document without errors is persisted unchanged as 'valid', a document
\* with errors is corrected once and persisted as 'valid_with_ev' without a
\* second validation; no other status is persisted and a run whose document
\* was validated ends with the instance persisted, never in an abort.
C4_ValidateOnceThenPersist ==
    /\ p_validations <= 1
    /\ p_corrections <= 1
    /\ \A i \in 1..Len(db) : db[i].validation_status \in {"valid", "valid_with_ev"}
    /\ p_saved # NoRow =>
          /\ p_validations = 1
          /\ IF p_is_valid
             THEN /\ p_saved.validation_status = "valid"
                  /\ p_saved.doc = p_built
                  /\ p_corrections = 0
             ELSE /\ p_saved.validation_status = "valid_with_ev"
                  /\ p_saved.doc.body = "corrected"
                  /\ p_corrections = 1
    /\ (RunOver /\ p_validations = 1) => (p_result = "success" /\ p_saved # NoRow)

\* the rdf_sync_status that records an upload outcome
SyncStatusOf(outcome) ==
    CASE outcome = "disabled" -> "disabled"
      [] outcome = "empty" -> "pending"
      [] outcome = "true" -> "synced"
      [] OTHER -> "failed"

\* the row of this run is in the table as it was saved, but for rdf_sync_status
RowKept ==
    /\ db # <<>>
    /\ db[Len(db)].instance_id = p_saved.instance_id
    /\ db[Len(db)].doc = p_saved.doc
    /\ db[Len(db)].validation_status = p_saved.validation_status

C6_BuildAfterAllSteps ==
    [][w_builds' # w_builds => w_visible \subseteq w_completed]_vars

(***************************************************************************)
(* C11.  The corrector's error behaviour.                                  *)
(***************************************************************************)
\* C11: auto_correct_with_evs never raises: unparseable input comes back
\* unchanged with an empty list of corrected labels, and parseable input
\* with any errors mapping yields a document and a list.
C11_CorrectorNeverRaises ==
    /\ c_pc # "raised"
    /\ (c_pc = "corrected" /\ c_xml = BadXml) => (c_out = c_xml /\ c_fields = <<>>)

(***************************************************************************)
(* C12.  A build without the skeleton file.                                *)
(***************************************************************************)
\* C12: when the skeleton file could not be loaded, build_from_form and
\* build_from_wizard end in an error and return no document.
C12_MissingSkeletonRaises ==
    (b_layout = "missing" /\ b_pc # "input") => (b_pc = "raised" /\ b_doc = NoElem)
(***************************************************************************)
(* C13: an entry of the form data whose ct_id the field metadata does not  *)
(* know, or whose component the skeleton does not hold, is silently        *)
(* skipped: the build raises no error and returns the document it returns  *)
(* without that entry.                                                     *)
(***************************************************************************)
SkeletonKeys == {SkeletonFields[i].key : i \in 1..Len(SkeletonFields)}

Skipped(form_data) == DOMAIN form_data \ SkeletonKeys

Without(form_data, k) == [x \in DOMAIN form_data \ {k} |-> form_data[x]]

C13_UnknownEntrySkipped ==
    (b_pc # "input" /\ b_layout \in {"indented", "compact", "partial"}) =>
        /\ b_pc # "raised"
        /\ b_entry = "form" =>
               \A k \in Skipped(b_form) :
                   b_doc = build_from_form(InstanceId, Without(b_form, k), b_meta)
        /\ b_entry = "wizard" =>
               \A k \in Skipped(WizardData.data) :
                   b_doc = build_from_wizard(InstanceId,
                               [WizardData EXCEPT !.data = Without(@, k)])

\* a build from form data that holds both kinds of skipped entry, with a value
C13_Witness ==
    /\ b_pc = "built" /\ b_layout = "partial"
    /\ {"f1", "zz"} \subseteq DOMAIN b_form
    /\ b_form["f1"] = PyStr(<<"1", "2">>) /\ b_form["zz"] = PyStr(<<"1", "2">>)
    /\ b_doc # NoElem

(***************************************************************************)
(* C14: in JSONExtractor.extract, the record of every component that       *)
(* carries an exceptional value (an exceptional-value element, or an       *)
(* element named after an EV code next to a preserved value) reports the   *)
(* EV and has no value, units or valid-time entry.                         *)
(***************************************************************************)
CarriesEv(doc, ct) ==
    LET comp == ComponentOf(doc, ct) IN
    \E i \in 1..Len(comp.kids) :
        comp.kids[i].name \in DOMAIN EV_CODES \cup {"exceptional-value"}

C14_EvRecordHasNoValue ==
    b_pc = "extracted" =>
        \A ct \in FieldKeys :
            CarriesEv(b_doc, ct) =>
                /\ ct \in DOMAIN j_flat
                /\ j_flat[ct].exceptional_value # <<>>
                /\ ~j_flat[ct].has_value
                /\ j_flat[ct].units = <<>>
                /\ j_flat[ct].valid_time_begin = <<>>

(***************************************************************************)
(* C15: RDFExtractor.extract emits exactly one reifier block per known     *)
(* ms-<ct_id> component that has a non-empty value or an EV, and none for  *)
(* a component with neither; the block starts with rdf:reifies when a      *)
(* value is present and with a sdc4:ExceptionalValueStatement when only an *)
(* EV is present, the corrector's EV included.                             *)
(***************************************************************************)
KnownComponents(doc) ==
    {ct \in FieldKeys : doc # BadXml /\ ComponentOf(doc, ct) # NoElem}

HasValueOf(doc, ct) == HasText(FindIn(ComponentOf(doc, ct), VALUE_ELEMENTS(MetaOf(ct).type)))

BlocksOf(ct) == {i \in 1..Len(c_rdf) : c_rdf[i].ct_id = ct}

C15_OneBlockPerComponent ==
    c_pc = "rdf" =>
        \A ct \in KnownComponents(c_out) :
            IF HasValueOf(c_out, ct)
            THEN /\ Cardinality(BlocksOf(ct)) = 1
                 /\ \A i \in BlocksOf(ct) : c_rdf[i].head = "rdf:reifies"
            ELSE IF CarriesEv(c_out, ct)
            THEN /\ Cardinality(BlocksOf(ct)) = 1
                 /\ \A i \in BlocksOf(ct) : c_rdf[i].head = "a sdc4:ExceptionalValueStatement"
            ELSE BlocksOf(ct) = {}

(***************************************************************************)
(* C16: builds for different instance ids share no mutable state: under    *)
(* any interleaving of two builder invocations each returned document is   *)
(* the one the invocation returns when run alone, and no step of a build   *)
(* writes module-level state.                                              *)
(***************************************************************************)
ReturnsAsAlone ==
    \A i \in Invocations :
        k_pc[i] = "done" => k_out[i] = build_from_form(InstanceIdOf(i), k_form[i], k_meta[i])

C16_BuildsShareNoState ==
    /\ []ReturnsAsAlone
    /\ [][(\E i \in Invocations : BuildStep(i)) => UNCHANGED _registry_cache]_vars

\* both invocations have returned, different inputs, their steps interleaved
C16_Witness ==
    /\ \A i \in Invocations : k_pc[i] = "done"
    /\ k_overlap
    /\ k_form[1] # k_form[2] /\ k_out[1] # k_out[2]

(***************************************************************************)
(* C17: after any sequence of key creations and deactivations a request is *)
(* authenticated exactly when its X-API-Key header hashes to the key_hash  *)
(* of a stored key whose is_active is true; any other request (no key, an  *)
(* unknown key, a deactivated key) is answered 401 and uploads nothing.    *)
(***************************************************************************)
ActiveKeyMatches(rows, header) ==
    /\ header.set
    /\ \E i \in 1..Len(rows) : rows[i].key_hash = hash_key(header.value) /\ rows[i].is_active

Storable(filename) ==
    /\ Len(filename) >= 2
    /\ filename[1] = "dm-"
    /\ Cardinality({i \in 1..Len(filename) : filename[i] = "."}) = 1
    /\ filename[Len(filename) - 1] = "."
    /\ LowerChunk(filename[Len(filename)]) \in {"xsd", "html", "owl"}

\* how often a file name occurs in a list of entries
TimesIn(entries, filename) ==
    Cardinality({i \in 1..Len(entries) : entries[i].filename = filename})

C18_SchemaUploadPartition ==
    [][(a_requests' # a_requests /\ a_resp'.user # 0 /\ a_req'.files # <<>>) =>
         LET files == a_req'.files
             stored == a_resp'.stored_files
             errors == a_resp'.errors
         IN /\ a_resp'.status = 201 /\ a_resp'.success
            /\ Len(stored) + Len(errors) = Len(files)
            /\ \A i \in 1..Len(files) :
                   /\ TimesIn(stored, files[i]) + TimesIn(errors, files[i])
                          = Cardinality({j \in 1..Len(files) : files[j] = files[i]})
                   /\ TimesIn(stored, files[i]) = 0 \/ TimesIn(errors, files[i]) = 0
            /\ \A j \in 1..Len(stored) : Storable(stored[j].filename)
            /\ a_storage' = a_storage \o [j \in 1..Len(stored) |-> stored[j].path]]_vars

\* an upload of a storable and a rejected file: one of each in the response
C18_Witness ==
    /\ a_resp.status = 201 /\ a_resp.user # 0
    /\ a_req.files = <<<<"dm-", "a", ".", "xsd">>, <<"a", ".", "xsd">>>>
    /\ Len(a_resp.stored_files) = 1 /\ Len(a_resp.errors) = 1
    /\ a_storage # <<>>

(***************************************************************************)
(* C19: can_proceed_to_step(s) is true exactly when every step before s is *)
(* marked completed or is a conditional step (1 or 3) that the             *)
(* configuration hides; step 0 is always reachable; a GET of a step for    *)
(* which it is false renders nothing and redirects to the first visible    *)
(* step.                                                                   *)
(***************************************************************************)
EarlierStepsDone(s) ==
    \A i \in 0..(s - 1) : i \in w_completed \/ (i \in {1, 3} /\ i \notin w_visible)

GateAsStated ==
    p_pc # "off" =>
        /\ \A s \in WizardSteps : can_proceed_to_step(s) <=> EarlierStepsDone(s)
        /\ can_proceed_to_step(0)

RefusedGet == w_get' # w_get /\ ~can_proceed_to_step(w_get'.step)

C19_RefusedGetGoesToFirstStep ==
    /\ []GateAsStated
    /\ [][RefusedGet =>
             /\ w_get'.response = "redirect wizard-step" /\ w_get'.to = FirstVisibleStep
             /\ w_builds' = w_builds]_vars

\* C19, amended: as C19 for a step the configuration shows; a GET of a step
\* it hides renders nothing and redirects to the wizard start, whatever
\* can_proceed_to_step returns.
C19_RefusedGetRedirects ==
    /\ []GateAsStated
    /\ [][w_get' # w_get =>
             /\ (w_get'.step \in w_visible /\ ~can_proceed_to_step(w_get'.step)) =>
                    /\ w_get'.response = "redirect wizard-step"
                    /\ w_get'.to = FirstVisibleStep
                    /\ w_builds' = w_builds
             /\ w_get'.step \notin w_visible =>
                    (w_get'.response = "redirect wizard-start" /\ w_builds' = w_builds)]_vars

\* step 2 of a wizard without the context step was requested right after
\* step 0 was completed and rendered; step 3 was requested before and refused
C19_Witness ==
    /\ w_visible = {0, 2, 3} /\ w_completed = {0}
    /\ w_get = [step |-> 3, response |-> "redirect wizard-step", to |-> 0]

(***************************************************************************)
(* C20.  The post_save trigger cannot loop.                                *)
(***************************************************************************)
BySignal(queue) == Cardinality({i \in DOMAIN queue : queue[i].by = "signal"})

TaskRan == t_last' # t_last /\ t_last'.by = "task"

\* C20: the receiver queues the task on a save only when the saved
\* rdf_sync_status is 'pending'; every save a task run performs writes
\* 'synced', 'failed' or 'disabled', so a run queues nothing through the
\* receiver; a message is retried at most max_retries times, and the queue
\* that a save filled is empty again later.
C20_TriggerCannotLoop ==
    /\ [][BySignal(t_queue') > BySignal(t_queue) =>
             (t_last'.by = "app" /\ t_status' = "pending" /\ t_last'.saved = <<"pending">>)]_vars
    /\ [][TaskRan =>
             /\ \A k \in DOMAIN t_last'.saved : t_last'.saved[k] \in {"synced", "failed", "disabled"}
             /\ \E i \in DOMAIN t_queue : BySignal(t_queue') = BySignal(RemoveAt(t_queue, i))]_vars
    /\ [](\A i \in DOMAIN t_queue : t_queue[i].retries <= max_retries)
    /\ (t_queue # <<>>) ~> (t_queue = <<>>)

\* the task triggered by a save failed three times with an exception, saving
\* 'failed' each time, and its last retry is the only message in the queue
C20_Witness ==
    /\ t_queue = <<Message(max_retries, "retry")>>
    /\ t_status = "failed"
    /\ t_last = [by |-> "task", saved |-> <<"failed">>, result |-> "retry"]

(***************************************************************************)
(* C21.  Optional context properties of a reifier block.                   *)
(***************************************************************************)
OptionalProps == {"units", "vtb", "vte", "tr", "modified", "latitude", "longitude", "act"}

PropsOf(block) == {block.lines[i].prop : i \in DOMAIN block.lines}

\* the element of the built document a context property is read from
PropElement(ct, prop) ==
    LET comp == ComponentOf(ET_fromstring(b_doc), ct) IN
    IF prop = "units"
    THEN LET u == _find_units_element(comp, MetaOf(ct).type) IN
         IF u = NoElem THEN NoElem ELSE FindIn(u, "xdstring-value")
    ELSE FindIn(comp, prop)

\* C21: in every reifier block an optional context property (units, vtb,
\* vte, tr, modified, latitude, longitude, act) is emitted only if its
\* element is present with text that is no placeholder; latitude and
\* longitude are emitted both or not at all; no emitted line holds the
\* placeholder prefix.
C21_ContextOnlyWhenPresent ==
    g_pc = "emitted" =>
        \A i \in DOMAIN g_rdf :
            LET block == g_rdf[i] IN
            /\ \A prop \in PropsOf(block) \cap OptionalProps :
                  /\ HasText(PropElement(block.ct_id, prop))
                  /\ ~HasPlaceholder(PropElement(block.ct_id, prop).text)
            /\ ("latitude" \in PropsOf(block)) <=> ("longitude" \in PropsOf(block))
            /\ \A k \in DOMAIN block.lines : ~HasPlaceholder(block.lines[k].text)

(***************************************************************************)
(* C22.  The tree path leaves no ev-placeholder and no comment.            *)
(***************************************************************************)
EvKids(comp) == {i \in 1..Len(comp.kids) : comp.kids[i].name \in DOMAIN EV_CODES}

\* the EV code the pruning pass is given for a component ("" for none)
SelectedEv(ct) ==
    IF b_entry = "form" /\ fm_ct_id_key /\ ct \in DOMAIN b_meta /\ b_meta[ct].ev \in DOMAIN EV_CODES
    THEN b_meta[ct].ev ELSE ""

BuiltByTreePath == b_pc \in {"built", "repruned", "extracted"} /\ b_layout # "missing"

\* C22: a document the tree path returned holds no ev-placeholder element
\* and no comment node; in each component the placeholder is gone and, when
\* an EV was selected for it, the EV element stands where the placeholder
\* stood (after label and act, before the other children).
C22_NoPlaceholderNoComment ==
    BuiltByTreePath =>
        /\ \A p \in Range(Iter(b_doc)) : At(b_doc, p).name \notin {"ev-placeholder", "#comment"}
        /\ \A ct \in FieldKeys :
              LET comp == ComponentOf(b_doc, ct) IN
              /\ comp # NoElem
              /\ Cardinality(EvKids(comp)) = (IF SelectedEv(ct) = "" THEN 0 ELSE 1)
              /\ \A i \in EvKids(comp) :
                    /\ comp.kids[i].ns = "sdc4" /\ comp.kids[i].name = SelectedEv(ct)
                    /\ Len(comp.kids[i].kids) = 1
                    /\ comp.kids[i].kids[1].name = "ev-name"
                    /\ comp.kids[i].kids[1].text = <<EV_CODES[SelectedEv(ct)]>>
                    /\ \A j \in 1..Len(comp.kids) :
                          (j < i) <=> (comp.kids[j].name \in {"label", "act"})

\* built with NASK selected for f2, whose act element was pruned
C22_Witness ==
    /\ BuiltByTreePath /\ SelectedEv("f2") = "NASK"
    /\ EvKids(ComponentOf(b_doc, "f2")) = {2}

(***************************************************************************)
(* C23.  JSONExtractor records the innermost ms-* elements only.           *)
(***************************************************************************)
\* an ms-* element that itself holds a value element or an exceptional value
HoldsValue(elem) ==
    \E i \in 1..Len(elem.kids) :
        elem.kids[i].name \in Range(VALUE_ELEMENT_NAMES) \cup {"exceptional-value"}

\* the search parts of the elements that hold a value themselves
InnermostParts(tree) ==
    LET paths == Iter(tree)
        parts(p) ==
            LET elem == At(tree, p)
                fd == _extract_field(elem)
            IN IF elem.name = "ms-" /\ elem.id # "" /\ HoldsValue(elem) /\ ~FieldDataEmpty(fd)
               THEN (IF fd.has_value THEN <<Str(fd.value)>> ELSE <<>>)
                        \o (IF fd.label # <<>> THEN <<fd.label>> ELSE <<>>)
               ELSE <<>>
    IN Flatten([i \in 1..Len(paths) |-> parts(paths[i])])

\* C23: every key of fields is the ct_id of an ms-* element that itself
\* holds a value element or an exceptional value, and search_text is made
\* of the parts of those elements only; the cluster wrapper is no key.
C23_OnlyInnermostRecorded ==
    b_pc = "extracted" =>
        LET tree == ET_fromstring(b_doc) IN
        /\ \A ct \in DOMAIN j_flat : HoldsValue(ComponentOf(tree, ct))
        /\ j_search = InnermostParts(tree)

(***************************************************************************)
(* C24.  AppInstaller.install: rollback after a failure.                   *)
(***************************************************************************)
IsReverseOf(a, b) == Len(a) = Len(b) /\ \A i \in 1..Len(a) : a[i] = b[Len(b) + 1 - i]

FailedByException == i_pc = "returned" /\ i_result.errors = "Installation failed"

RefusedBeforeCopy ==
    i_pc = "returned" /\ i_result.errors \in {"not found", "not a zip", "bad structure", "conflict"}

\* C24: when install() ends with an exception after files or configuration
\* were changed, every registered rollback action has run exactly once, in
\* reverse order of registration, success is false and the temporary
\* directory is removed; when the ZIP validation or the conflict check
\* fails, success is false and no project file was copied or modified.
C24_RollbackAfterFailure ==
    /\ (FailedByException /\ (i_registered # <<>> \/ i_project # i_project0)) =>
           /\ IsReverseOf(i_ran, i_registered)
           /\ i_rollback_actions = <<>>
           /\ i_result.returned /\ ~i_result.success
           /\ i_temp_dir = "removed"
    /\ RefusedBeforeCopy =>
           /\ i_result.returned /\ ~i_result.success
           /\ i_project = i_project0 /\ i_registered = <<>> /\ i_ran = <<>>

\* the write of urls.py raised after the app directory, two schema files and
\* settings.py were changed: five actions ran, the one for urls.py first
C24_Witness ==
    /\ FailedByException
    /\ Len(i_ran) = 5
    /\ i_ran[1] = RollbackAction("restore urls", NoFile)
    /\ i_ran[5] = RollbackAction("rmtree app", NoFile)
    /\ i_project = i_project0

(***************************************************************************)
(* C25.  The persisted instance_id is the one written in the document.     *)
(***************************************************************************)
\* C25: every row persisted by the wizard completion or the bulk import has
\* the instance id that the instance_id element of its xml_content holds,
\* also after the id got its EV marker.
C25_RowIdIsDocumentId ==
    \A i \in DOMAIN db : db[i].instance_id = db[i].doc.id

(***************************************************************************)
(* C26.  The EV marker of the id goes with validation_status.              *)
(***************************************************************************)
IsEvId(id) == Len(id) > 2 /\ id[1] = "i-" /\ id[2] = "ev-"

IsPlainId(id) == Len(id) > 1 /\ id[1] = "i-" /\ id[2] # "ev-"

IdGoesWithStatus(row) ==
    /\ IsEvId(row.instance_id) <=> row.validation_status = "valid_with_ev"
    /\ ~IsEvId(row.instance_id) => (IsPlainId(row.instance_id) /\ row.validation_status = "valid")
    /\ has_exceptional_values(row) <=> IsEvId(row.instance_id)

\* C26: a row persisted by the wizard completion, the bulk import or the
\* validation API has an id i-ev-{cuid} exactly when its validation_status
\* is 'valid_with_ev', and otherwise an id i-{cuid} with status 'valid';
\* has_exceptional_values is true exactly for the i-ev- rows.
C26_EvIdIffValidWithEv ==
    /\ \A i \in DOMAIN db : IdGoesWithStatus(db[i])
    /\ \A i \in DOMAIN generic_db : IdGoesWithStatus(generic_db[i])

\* a corrected bulk import, a valid one, and a corrected document of the API
C26_Witness ==
    /\ Len(db) = 2 /\ Len(generic_db) = 1
    /\ IsEvId(db[1].instance_id) /\ IsPlainId(db[2].instance_id)
    /\ IsEvId(generic_db[1].instance_id)

(***************************************************************************)
(* C27.  The rdf_sync_status a finished run leaves behind.                 *)
(***************************************************************************)
SyncStatusAfter(outcome) ==
    CASE outcome = "disabled" -> "disabled"
      [] outcome = "true" -> "synced"
      [] OTHER -> "failed"

====
